---- MODULE Spec2Model ----
(***************************************************************************)
(* The worksheet execution engine of sagewui (sagenb/notebook/worksheet.py *)
(* and sagenb/util/text.py): the cell list, the pending queue, the         *)
(* computing flag, the worksheet process and the {{{ }}} markup codec.     *)
(* Texts are sequences of one-character strings.  Indices of the string    *)
(* helpers are Python's (0-based, -1 for "not found").                     *)
(***************************************************************************)
EXTENDS Integers, Sequences, FiniteSets, TLC

(***************************************************************************)
(* Bounds of the model.                                                    *)
(***************************************************************************)
MaxCells == 2
MaxId == 1
MaxHidden == 2
MaxObjects == 3
MaxSpawn == 2
MaxTime == 5

MaxBlocks == 3

(***************************************************************************)
(* Python string primitives.                                               *)
(***************************************************************************)
SetMin(S) == CHOOSE x \in S : \A y \in S : x <= y

SetMax(S) == CHOOSE x \in S : \A y \in S : x >= y

NL == <<"\n">>

Whitespace == {" ", "\n", "\t", "\r"}

\* s[a:b]
Slice(s, a, b) ==
    LET lo == IF a < 0 THEN 0 ELSE a
        hi == IF b > Len(s) THEN Len(s) ELSE b
    IN  IF lo >= hi THEN <<>> ELSE SubSeq(s, lo + 1, hi)

\* s[a:]
From(s, a) == Slice(s, a, Len(s))

\* s.startswith(sub, i)
MatchAt(s, sub, i) ==
    /\ i + Len(sub) <= Len(s)
    /\ SubSeq(s, i + 1, i + Len(sub)) = sub

\* s.find(sub)
Find(s, sub) ==
    LET hits == {i \in 0..(Len(s) - Len(sub)) : MatchAt(s, sub, i)}
    IN  IF hits = {} THEN -1 ELSE SetMin(hits)

\* s.strip(chars)
StripChars(s, chars) ==
    LET keep == {i \in 1..Len(s) : s[i] \notin chars}
    IN  IF keep = {} THEN <<>> ELSE SubSeq(s, SetMin(keep), SetMax(keep))

\* s.rstrip(chars)
RStripChars(s, chars) ==
    LET keep == {i \in 1..Len(s) : s[i] \notin chars}
    IN  IF keep = {} THEN <<>> ELSE SubSeq(s, 1, SetMax(keep))

\* s.strip()
Strip(s) == StripChars(s, Whitespace)

\* s.split(sep) for a one-character separator
RECURSIVE Split(_, _)
Split(s, sep) ==
    LET i == Find(s, <<sep>>)
    IN  IF i = -1 THEN <<s>>
        ELSE <<Slice(s, 0, i)>> \o Split(From(s, i + 1), sep)

(***************************************************************************)
(* Cell ids are integers or strings; the two kinds are kept in one record  *)
(* shape so that ids of different kinds can be compared.                   *)
(***************************************************************************)
IntId(n) == [isint |-> TRUE, n |-> n, s |-> <<>>]

StrId(s) == [isint |-> FALSE, n |-> 0, s |-> s]

Digits == <<"0", "1", "2", "3", "4", "5", "6", "7", "8", "9">>

DigitSet == {Digits[i] : i \in 1..10}

DigitVal(c) == (CHOOSE i \in 1..10 : Digits[i] = c) - 1

RECURSIVE BaseVal(_, _)
BaseVal(s, base) ==
    IF s = <<>> THEN 0
    ELSE BaseVal(SubSeq(s, 1, Len(s) - 1), base) * base + DigitVal(s[Len(s)])

\* The value eval() gives a metadata value (Python 2: a literal with a
\* leading zero is octal); anything that is no integer literal stays the
\* raw string.
EvalValue(b) ==
    IF b # <<>> /\ \A i \in 1..Len(b) : b[i] \in DigitSet
    THEN IF Len(b) > 1 /\ b[1] = "0"
         THEN IF \A i \in 1..Len(b) : DigitVal(b[i]) < 8
              THEN IntId(BaseVal(b, 8))
              ELSE StrId(b)
         ELSE IntId(BaseVal(b, 10))
    ELSE IF Len(b) > 1 /\ b[1] = "-"
              /\ \A i \in 2..Len(b) : b[i] \in DigitSet
              /\ ~(Len(b) > 2 /\ b[2] = "0")
         THEN IntId(0 - BaseVal(Tail(b), 10))
         ELSE StrId(b)

\* '%s' % n for a non-negative n
RECURSIVE IntToStr(_)
IntToStr(n) ==
    IF n < 10 THEN <<Digits[n + 1]>>
    ELSE IntToStr(n \div 10) \o <<Digits[(n % 10) + 1]>>

\* '%s' % id
IdToStr(id) ==
    IF id.isint
    THEN IF id.n < 0 THEN <<"-">> \o IntToStr(-id.n) ELSE IntToStr(id.n)
    ELSE id.s

(***************************************************************************)
(* sagenb/util/text.py                                                     *)
(***************************************************************************)
OPEN == <<"{", "{", "{">>

NLCLOSE == <<"\n", "}", "}", "}">>

NLSEP == <<"\n", "/", "/", "/">>

KeyId == <<"i", "d">>

\* A metadata dictionary, of which only the 'id' entry is read.
NoMeta == [has_id |-> FALSE, id |-> IntId(0)]

\* the [a, b] pairs of dictify's loop
dictify_pairs(parts) ==
    [i \in 1..Len(parts) |-> Split(Strip(parts[i]), "=")]

\* dict(w), or {} when a part is no a=b pair (ValueError)
dictify_dict(pairs) ==
    IF \E i \in 1..Len(pairs) : Len(pairs[i]) # 2
    THEN NoMeta
    ELSE LET idx == {i \in 1..Len(pairs) : pairs[i][1] = KeyId}
         IN  IF idx = {} THEN NoMeta
             ELSE [has_id |-> TRUE, id |-> EvalValue(pairs[SetMax(idx)][2])]

dictify(s) == dictify_dict(dictify_pairs(Split(s, ",")))

extract_text_before_first_compute_cell(text) ==
    LET i == Find(text, OPEN)
    IN  IF i = -1 THEN text ELSE Slice(text, 0, i)

EofResult ==
    [eof |-> TRUE, meta |-> NoMeta, input |-> <<>>, output |-> <<>>, end |-> 0]

\* extract_cell_body that takes a missing closing delimiter for the end of
\* the input
extract_cell_body_eof(text, meta, i, j1, k) ==
    IF j1 = -1 THEN EofResult
    ELSE [eof |-> FALSE, meta |-> meta,
          input |-> Strip(IF k = -1 \/ k > j1 THEN Slice(text, i, j1 + i)
                          ELSE Strip(Slice(text, i, i + k))),
          output |-> IF k = -1 \/ k > j1 THEN <<>>
                     ELSE Slice(text, i + k + 4, j1 + i),
          end |-> j1 + i + 4]

\* extract_cell_body that ends every block after the first character of
\* the text
extract_cell_body_one(text, meta, i, j1, k) ==
    LET j == IF j1 = -1 THEN Len(text) ELSE j1 + i
        noout == k = -1 \/ k + i > j
    IN  [eof |-> FALSE, meta |-> meta,
         input |-> Strip(IF noout THEN Slice(text, i, j)
                         ELSE Strip(Slice(text, i, i + k))),
         output |-> IF noout THEN <<>> ELSE Slice(text, i + k + 4, j),
         end |-> 1]

\* lines 349-362: i is where the input starts, j1 and k are what the two
\* finds on text[i:] give
extract_cell_body(text, meta, i, j1, k) ==
    LET j == IF j1 = -1 THEN Len(text) ELSE j1 + i
        noout == k = -1 \/ k + i > j
    IN  [eof |-> FALSE, meta |-> meta,
         input |-> Strip(IF noout THEN Slice(text, i, j)
                         ELSE Strip(Slice(text, i, i + k))),
         output |-> IF noout THEN <<>> ELSE Slice(text, i + k + 4, j),
         end |-> j + 4]

\* lines 339-347: the metadata and the start of the input
extract_cell_meta(text, i0, meta, i) ==
    extract_cell_body(text, meta, i, Find(From(text, i), NLCLOSE),
                      Find(From(text, i), NLSEP))

\* lines 335-338: j0 and k0 are what the finds on text[i0:] give
extract_cell_head(text, i0, j0, k0) ==
    IF j0 = -1 THEN EofResult
    ELSE IF k0 # -1 /\ k0 < j0
         THEN extract_cell_meta(text, i0, dictify(Slice(text, i0 + 3, i0 + k0)),
                                i0 + k0 + 1)
         ELSE extract_cell_meta(text, i0, NoMeta, i0 + 3)

extract_cell_at(text, i0) ==
    IF i0 = -1 THEN EofResult
    ELSE extract_cell_head(text, i0, Find(From(text, i0), NL),
                           Find(From(text, i0), <<"|">>))

extract_first_compute_cell(text) == extract_cell_at(text, Find(text, OPEN))

\* The block list built by the extraction loop of edit_save.
PlainBlock(T) ==
    [typ |-> "plain", text |-> T, meta |-> NoMeta, input |-> <<>>,
     output |-> <<>>]

ComputeBlock(r) ==
    [typ |-> "compute", text |-> <<>>, meta |-> r.meta, input |-> r.input,
     output |-> r.output]

RECURSIVE ParseData(_)
\* one round of the extraction loop of edit_save (lines 2011-2024)
ParseStep(text, plain_text, r) ==
    LET pre == IF Len(plain_text) > 0 THEN <<PlainBlock(plain_text)>> ELSE <<>>
    IN  IF r.eof THEN pre
        ELSE pre \o <<ComputeBlock(r)>> \o ParseData(From(text, r.end))

ParseData(text) ==
    ParseStep(text, Strip(extract_text_before_first_compute_cell(text)),
              extract_first_compute_cell(text))

(***************************************************************************)
(* Cells.  A cell object is an entry of the heap w.cell; the cell list and *)
(* the queue hold heap indices, so that one object can be in both.         *)
(***************************************************************************)
PercentAuto == <<"%", "a", "u", "t", "o">>

RestartKeywords ==
    { <<"r", "e", "s", "t", "a", "r", "t">>, <<"q", "u", "i", "t">>,
      <<"e", "x", "i", "t">> }

ExitedText ==
    <<"E", "x", "i", "t", "e", "d", " ", "s", "a", "g", "e", " ",
      "p", "r", "o", "c", "e", "s", "s">>

\* Cell(id, input, '', worksheet); dir is what the cell's directory holds,
\* introspect what Cell.introspect() gives: "no" for False, else what the
\* text before the cursor is ("empty" or "text")
Cell(id, input) ==
    [id |-> id, kind |-> "compute", input |-> input, output |-> <<>>,
     asap |-> FALSE, no_output |-> FALSE, interrupted |-> FALSE,
     ws |-> "self", dir |-> {}, introspect |-> "no"]

\* TextCell(id, text, worksheet)
TextCell(id, text) ==
    [id |-> id, kind |-> "text", input |-> text, output |-> <<>>,
     asap |-> FALSE, no_output |-> FALSE, interrupted |-> FALSE,
     ws |-> "self", dir |-> {}, introspect |-> "no"]

\* Cell.is_auto_cell(): 'auto' is among the percent directives of the input
is_auto_cell(c) ==
    /\ c.kind = "compute"
    /\ \/ c.input = PercentAuto
       \/ MatchAt(c.input, PercentAuto \o NL, 0)

\* Cell.cleaned_input_text(): the input without its percent directives
cleaned_input_text(c) ==
    IF c.input = PercentAuto THEN <<>>
    ELSE IF MatchAt(c.input, PercentAuto \o NL, 0)
         THEN From(c.input, Len(PercentAuto) + 1)
         ELSE c.input

\* Cell_generic.__cmp__: cells compare by id
CellEq(w, a, b) == w.cell[a].id = w.cell[b].id

\* a membership test that never finds the cell
InQueueNever(w, C) == FALSE

\* C in self.__queue
InQueue(w, C) == \E i \in 1..Len(w.queue) : CellEq(w, w.queue[i], C)

\* Cell.edit_text() and TextCell.edit_text()
edit_text(c) ==
    IF c.kind = "text" THEN c.input
    ELSE LET out == StripChars(<<"/", "/", "/", "\n">> \o
                               StripChars(c.output, {"\n"}), {"\r", "\n"})
             s == RStripChars(StripChars(c.input, {"\n"}) \o NL \o out,
                              {"\n"})
         IN  OPEN \o <<"i", "d", "=">> \o IdToStr(c.id) \o <<"|">> \o NL
                  \o s \o NLCLOSE

RECURSIVE BodyOf(_, _)
BodyOf(w, L) ==
    IF L = <<>> THEN <<>>
    ELSE LET t == Strip(edit_text(w.cell[Head(L)]))
         IN  (IF t # <<>> THEN NL \o NL \o t ELSE <<>>) \o BodyOf(w, Tail(L))

\* Worksheet.body()
body(w) == BodyOf(w, w.cells)

(***************************************************************************)
(* The worksheet process (external collaborator).  pending counts the      *)
(* submissions in flight: those the process has neither finished nor       *)
(* failed nor been interrupted out of.                                     *)
(***************************************************************************)
NewProc == [started |-> TRUE, busy |-> FALSE, pending |-> 0, quit |-> FALSE]

DeadProc == [started |-> FALSE, busy |-> FALSE, pending |-> 0, quit |-> TRUE]

Raise(w, e) == [w EXCEPT !.exc = e]

Ok(w) == w.exc = "none"

\* S.execute(input, ...) for the cell C, whose code_id is the block id
\* taken at lines 2606-2607
execute(w, C) ==
    [w EXCEPT !.block_ids = Append(@, w.code_id),
              !.procs[w.sage].busy = TRUE,
              !.procs[w.sage].pending =
                  IF @ >= 2 THEN 2 ELSE @ + 1,
              !.submitted = Append(@, [proc |-> w.sage, obj |-> C,
                                       id |-> w.cell[C].id,
                                       input |-> cleaned_input_text(w.cell[C])])]

(***************************************************************************)
(* Cell counters and cell creation.                                        *)
(***************************************************************************)
IntIdsOf(w, L) ==
    {w.cell[L[i]].id.n : i \in {j \in 1..Len(L) : w.cell[L[j]].id.isint}}

\* set_cell_counter that counts the cells instead of reading their ids
set_cell_counter_len(w) == [w EXCEPT !.next_id = Len(w.cells)]

\* Worksheet.set_cell_counter()
set_cell_counter(w) ==
    [w EXCEPT !.next_id = 1 + SetMax(IntIdsOf(w, w.cells) \cup {-1})]

\* The object created last
Newest(w) == Len(w.cell)

\* Worksheet._new_cell(id, hidden, input): the new object is Newest
new_cell(w, has_id, id, hidden, input) ==
    IF has_id
    THEN [w EXCEPT !.cell = Append(@, Cell(id, input))]
    ELSE IF hidden
         THEN [w EXCEPT !.cell = Append(@, Cell(IntId(w.next_hidden_id), input)),
                        !.next_hidden_id = @ - 1]
         ELSE [w EXCEPT !.cell = Append(@, Cell(IntId(w.next_id), input)),
                        !.next_id = @ + 1]

\* Worksheet._new_text_cell(plain_text, id)
new_text_cell(w, plain_text, has_id, id) ==
    IF has_id
    THEN [w EXCEPT !.cell = Append(@, TextCell(id, plain_text))]
    ELSE [w EXCEPT !.cell = Append(@, TextCell(IntId(w.next_id), plain_text)),
                   !.next_id = @ + 1]

\* cells.insert(i, C) with a 0-based i
InsertAt(L, i, C) ==
    LET k == IF i > Len(L) THEN Len(L) ELSE i
    IN  SubSeq(L, 1, k) \o <<C>> \o SubSeq(L, k + 1, Len(L))

RemoveAt(L, i) == SubSeq(L, 1, i - 1) \o SubSeq(L, i + 1, Len(L))

\* the 1-based position of the first cell of L with this id, 0 if none
IndexOfId(w, L, id) ==
    LET hits == {i \in 1..Len(L) : w.cell[L[i]].id = id}
    IN  IF hits = {} THEN 0 ELSE SetMin(hits)

\* Worksheet.append_new_cell()
append_new_cell(w) ==
    LET w1 == new_cell(w, FALSE, IntId(0), FALSE, <<>>)
    IN  [w1 EXCEPT !.cells = Append(@, Newest(w1))]

\* Worksheet.new_cell_before / new_cell_after / new_text_cell_before /
\* new_text_cell_after: after = TRUE inserts behind the cell found
insert_new_cell(w, id, input, text, after) ==
    LET w1 == IF text THEN new_text_cell(w, input, FALSE, IntId(0))
              ELSE new_cell(w, FALSE, IntId(0), FALSE, input)
        i == IndexOfId(w, w.cells, id)
    IN  IF i = 0 THEN [w1 EXCEPT !.cells = Append(@, Newest(w1))]
        ELSE [w1 EXCEPT !.cells =
                 InsertAt(@, IF after THEN i ELSE i - 1, Newest(w1))]

\* Worksheet.delete_cell_with_id(id)
delete_cell_with_id(w, id) ==
    LET i == IndexOfId(w, w.cells, id)
    IN  IF i = 0
        THEN IF w.cells = <<>> THEN Raise(w, "IndexError") ELSE w
        ELSE
        LET C == w.cells[i]
            qi == {k \in 1..Len(w.queue) : CellEq(w, w.queue[k], C)}
            q1 == IF qi # {} /\ ~CellEq(w, w.queue[1], C)
                  THEN RemoveAt(w.queue, SetMin(qi)) ELSE w.queue
            w1 == [w EXCEPT !.queue = q1,
                            !.cell[C].output = <<>>,
                            !.cells = RemoveAt(@, i)]
        IN  IF i = 1 /\ w1.cells = <<>> THEN Raise(w1, "IndexError") ELSE w1

(***************************************************************************)
(* Reconstruction of the cell list from markup text.                       *)
(***************************************************************************)
\* sagenb.util.next_available_id: the smallest non-negative integer not in v
next_available_id(v) ==
    LET used == {x.n : x \in {y \in v : y.isint}}
    IN  SetMin({n \in 0..(Cardinality(v) + 1) : n \notin used})

\* block_id without the test of used_ids: a declared id is always kept
block_id_keep(b, ids, used_ids, ignore_ids) ==
    IF b.typ = "compute" /\ ~ignore_ids /\ b.meta.has_id
    THEN b.meta.id
    ELSE IntId(next_available_id(ids))

\* the id the loop of edit_save gives the block b (lines 2034, 2040-2050)
block_id(b, ids, used_ids, ignore_ids) ==
    IF b.typ = "compute" /\ ~ignore_ids /\ b.meta.has_id
       /\ b.meta.id \notin used_ids
    THEN b.meta.id
    ELSE IntId(next_available_id(ids))

\* lines 2036: a new text cell at the end of the new list w.tmp
add_text_block(w, b, id) ==
    LET w1 == new_text_cell(w, b.text, TRUE, id)
    IN  [w1 EXCEPT !.tmp = Append(@, Newest(w1))]

\* lines 2052-2063: the cell of the list with this id is taken again unless
\* it is a text cell; loaded tells whether self.__cells exists
add_compute_block(w, b, id, loaded) ==
    LET found == IF loaded THEN IndexOfId(w, w.cells, id) ELSE 0
        reuse == found # 0 /\ w.cell[w.cells[found]].kind # "text"
        C == IF reuse THEN w.cells[found] ELSE Len(w.cell) + 1
    IN  [(IF reuse THEN w ELSE new_cell(w, TRUE, id, FALSE, <<>>))
            EXCEPT !.cell[C].input = b.input,
                   !.cell[C].output = b.output,
                   !.tmp = Append(@, C)]

\* The loop of edit_save over the extracted blocks; the new list grows in
\* w.tmp.
RECURSIVE edit_loop(_, _, _, _, _, _)
edit_block(w, data, ids, used_ids, ignore_ids, loaded, id) ==
    edit_loop(IF Head(data).typ = "plain"
              THEN add_text_block(w, Head(data), id)
              ELSE add_compute_block(w, Head(data), id, loaded),
              Tail(data), ids \cup {id}, used_ids \cup {id}, ignore_ids,
              loaded)

edit_loop(w, data, ids, used_ids, ignore_ids, loaded) ==
    IF data = <<>> THEN w
    ELSE edit_block(w, data, ids, used_ids, ignore_ids, loaded,
                    block_id(Head(data), ids, used_ids, ignore_ids))

DeclaredIds(data) ==
    {data[i].meta.id :
        i \in {j \in 1..Len(data) :
                  data[j].typ = "compute" /\ data[j].meta.has_id}}

\* edit_install without the appended compute cell
edit_install_bare(w) ==
    set_cell_counter([w EXCEPT !.cells = w.tmp, !.tmp = <<>>])

\* lines 2065-2072: the new list is installed, the counter set and a
\* compute cell appended when the list is empty or ends with a text cell
edit_install(w) ==
    IF w.tmp = <<>> \/ w.cell[w.tmp[Len(w.tmp)]].kind = "text"
    THEN append_new_cell(set_cell_counter([w EXCEPT !.cells = w.tmp,
                                                    !.tmp = <<>>]))
    ELSE set_cell_counter([w EXCEPT !.cells = w.tmp, !.tmp = <<>>])

edit_data(w, data, ignore_ids, loaded) ==
    edit_install(edit_loop([w EXCEPT !.tmp = <<>>], data, DeclaredIds(data),
                           {}, ignore_ids, loaded))

\* Worksheet.edit_save(text, ignore_ids)
edit_save(w, text, ignore_ids, loaded) ==
    edit_data(w, ParseData(text), ignore_ids, loaded)

(***************************************************************************)
(* The scheduler.                                                          *)
(***************************************************************************)
\* clear_queue that flags every cell there is
clear_queue_all(w) ==
    [w EXCEPT !.cell = [o \in DOMAIN w.cell |->
                           [w.cell[o] EXCEPT !.interrupted = TRUE]],
              !.queue = <<>>,
              !.comp_is_running = FALSE]

\* Worksheet.clear_queue()
clear_queue(w) ==
    [w EXCEPT !.cell = [o \in DOMAIN w.cell |->
                           IF \E i \in 1..Len(w.queue) : w.queue[i] = o
                           THEN [w.cell[o] EXCEPT !.interrupted = TRUE]
                           ELSE w.cell[o]],
              !.queue = <<>>,
              !.comp_is_running = FALSE]

\* lines 2475-2481: S.quit() for the process S; what it raises is caught.
\* A process whose quit raises was asked to quit and is left as it is.
S_quit(w, S) ==
    IF w.quit_raises THEN [w EXCEPT !.procs[S].quit = TRUE]
    ELSE [w EXCEPT !.procs[S] = DeadProc]

\* quit_drop that leaves the queue and the cell list as they are
quit_drop_keep(w) ==
    IF w.sage = 0 THEN Raise(w, "AttributeError")
    ELSE [w EXCEPT !.sage = 0, !.registered = FALSE]

\* lines 2483-2497: del self.__sage raises AttributeError when the
\* attribute is not there; else the body is saved, the queue cleared, the
\* cell list dropped and loaded again from the saved body, and the
\* worksheet taken out of the notebook's table (quit_worksheet)
quit_drop(w) ==
    IF w.sage = 0 THEN Raise(w, "AttributeError")
    ELSE LET w1 == [w EXCEPT !.sage = 0, !.registered = FALSE]
         IN  edit_save([clear_queue(w1) EXCEPT !.cells = <<>>], body(w1),
                       FALSE, FALSE)

\* a quit that drops the handle without S.quit()
quit_forget(w) ==
    IF w.sage = 0 THEN [w EXCEPT !.registered = FALSE] ELSE quit_drop(w)

\* a quit that stops every process there is
quit_all(w) ==
    IF w.sage = 0 THEN [w EXCEPT !.registered = FALSE]
    ELSE quit_drop([w EXCEPT !.procs = [p \in DOMAIN w.procs |-> DeadProc]])

\* Worksheet.quit(): without a handle the worksheet is only taken out of
\* the notebook's table (lines 2468-2473)
quit(w) ==
    IF w.sage = 0 THEN [w EXCEPT !.registered = FALSE]
    ELSE quit_drop(S_quit(w, w.sage))

\* the scan for asap cells that stops at once
SkipNone(w, i) == i

\* the queue position enqueue gives the cell C (lines 2954-2964)
RECURSIVE SkipAsap(_, _)
SkipAsap(w, i) ==
    IF i < Len(w.queue) /\ w.cell[w.queue[i + 1]].asap
    THEN SkipAsap(w, i + 1) ELSE i

\* enqueue_place with the scan for asap cells always started at the head
enqueue_place_head(w, C) ==
    IF InQueue(w, C) THEN w
    ELSE IF w.cell[C].asap
         THEN LET i == SkipAsap(w, 0)
              IN  [w EXCEPT !.queue = InsertAt(@, i, C)]
         ELSE [w EXCEPT !.queue = Append(@, C)]

enqueue_place(w, C) ==
    IF InQueue(w, C) THEN w
    ELSE IF w.cell[C].asap
         THEN LET i == SkipAsap(w, IF w.comp_is_running THEN 1 ELSE 0)
              IN  [w EXCEPT !.queue = InsertAt(@, i, C)]
         ELSE [w EXCEPT !.queue = Append(@, C)]

RECURSIVE sage(_)
RECURSIVE start_next_comp(_)
RECURSIVE enqueue(_, _)
RECURSIVE enqueue_auto_cells(_, _)
RECURSIVE restart_sage(_)

\* sage without the test for a published worksheet
sage_spawn(w) ==
    IF w.sage # 0 /\ w.procs[w.sage].started THEN w
    ELSE IF Len(w.procs) >= w.limit THEN Raise(w, "bound")
    ELSE enqueue_auto_cells(
             [w EXCEPT !.procs = Append(@, NewProc),
                       !.sage = Len(w.procs) + 1,
                       !.next_block_id = 0],
             w.cells)

\* Worksheet.sage(): the handle returned is w.sage (0 stands for None)
sage(w) ==
    IF w.published THEN w
    ELSE IF w.sage # 0 /\ w.procs[w.sage].started THEN w
    ELSE IF w.spawn_fail = 1
         THEN \* new_worksheet_process raised; del self.__sage raises
              \* AttributeError when the attribute is not there
              [w EXCEPT !.exc = IF w.sage = 0 THEN "AttributeError"
                                ELSE "RuntimeError",
                        !.sage = 0, !.spawn_fail = 0]
    ELSE IF Len(w.procs) >= w.limit THEN Raise(w, "bound")
    ELSE enqueue_auto_cells(
             [w EXCEPT !.procs = Append(@, NewProc),
                       !.sage = Len(w.procs) + 1,
                       !.next_block_id = 0,
                       !.spawn_fail = IF @ > 0 THEN @ - 1 ELSE 0],
             w.cells)

\* Worksheet._enqueue_auto_cells(): L is the list object being iterated
enqueue_auto_cells(w, L) ==
    IF L = <<>> \/ ~Ok(w) THEN w
    ELSE IF is_auto_cell(w.cell[Head(L)])
         THEN enqueue_auto_cells(enqueue(w, Head(L)), Tail(L))
         ELSE enqueue_auto_cells(w, Tail(L))

\* enqueue without the tests of the cell's type and worksheet
enqueue_unchecked(w, C) ==
    IF w.published THEN w ELSE start_next_comp(enqueue_place(w, C))

\* Worksheet.enqueue(C) for a cell C of this worksheet; line 2947 records
\* the time of the call (w.last is -1 while nothing is recorded)
enqueue(w, C) ==
    IF w.published THEN w
    ELSE IF w.cell[C].kind # "compute"
    THEN Raise([w EXCEPT !.last = w.now], "TypeError")
    ELSE IF w.cell[C].ws # "self"
    THEN Raise([w EXCEPT !.last = w.now], "ValueError")
    ELSE start_next_comp(enqueue_place([w EXCEPT !.last = w.now], C))

\* lines 2595-2600: the output text set once restart_sage() has returned
after_restart(w1, C) ==
    IF Ok(w1) THEN [w1 EXCEPT !.cell[C].output = ExitedText] ELSE w1

\* lines 2642-2644: execute on what self.sage() returned
submit(w1, C) ==
    IF ~Ok(w1) THEN w1
    ELSE IF w1.sage = 0 THEN Raise(w1, "AttributeError")
    ELSE execute(w1, C)

\* Worksheet.next_block_id(): a counter that is not there counts as 0
next_block_id(w) == [w EXCEPT !.next_block_id = @ + 1]

\* lines 2606-2639: C.code_id = self.next_block_id(); preparse_input takes
\* another block id for the file of a %cython cell (cython_import, line
\* 3230); then the flag is set
block_of(w) ==
    LET w1 == next_block_id(w)
    IN  [(IF w.cython THEN next_block_id(w1) ELSE w1)
            EXCEPT !.code_id = w1.next_block_id, !.comp_is_running = TRUE]

\* start_next_comp without the test for the restart keywords
start_next_comp_exec(w) ==
    IF Len(w.queue) = 0 THEN w
    ELSE IF w.comp_is_running THEN w
    ELSE IF w.cell[w.queue[1]].interrupted THEN w
    ELSE submit(sage(block_of(w)), w.queue[1])

\* Worksheet.start_next_comp()
start_next_comp(w) ==
    IF Len(w.queue) = 0 THEN w
    ELSE IF w.comp_is_running THEN w
    ELSE IF w.cell[w.queue[1]].interrupted THEN w
    ELSE IF /\ w.cell[w.queue[1]].introspect = "no"
            /\ cleaned_input_text(w.cell[w.queue[1]]) \in RestartKeywords
    THEN after_restart(restart_sage(w), w.queue[1])
    ELSE submit(sage(block_of(w)), w.queue[1])

\* line 2873: start_next_comp() once quit() and sage() have returned
start_after_spawn(w1) == IF Ok(w1) THEN start_next_comp(w1) ELSE w1

\* Worksheet.restart_sage()
restart_sage(w) ==
    start_after_spawn(sage(quit([w EXCEPT !.restarted = TRUE])))

\* Worksheet.ping()
ping(w) == IF w.published THEN w ELSE [w EXCEPT !.last = w.now]

\* quit_if_idle that quits as soon as the idle time reaches the timeout
quit_if_idle_at(w, timeout) ==
    IF timeout <= 0 THEN w
    ELSE IF w.last = -1 THEN [w EXCEPT !.last = w.now]
    ELSE IF w.now - w.last >= timeout THEN quit(w) ELSE w

\* Worksheet.quit_if_idle(timeout): time_idle() is read only when timeout
\* is positive; last_compute_walltime() records the time of the call when
\* nothing was recorded, and the idle time is then 0
quit_if_idle(w, timeout) ==
    IF timeout <= 0 THEN w
    ELSE IF w.last = -1 THEN [w EXCEPT !.last = w.now]
    ELSE IF w.now - w.last > timeout THEN quit(w) ELSE w

Ret(w, r) == [w EXCEPT !.ret = r]

\* lines 2564-2567: the hidden cell of eval_asap_no_output (it is Newest)
asap_cell(w, cmd) ==
    [new_cell(w, FALSE, IntId(0), TRUE, <<>>)
        EXCEPT !.cell[Len(w.cell) + 1].asap = TRUE,
               !.cell[Len(w.cell) + 1].no_output = TRUE,
               !.cell[Len(w.cell) + 1].input = cmd]

\* Cell.evaluate(introspect=[before, after]): the request is kept in the
\* cell and the cell is queued
evaluate_introspect(w, C, before) ==
    enqueue([w EXCEPT !.cell[C].introspect = before], C)

\* Worksheet.eval_asap_no_output(cmd)
eval_asap_no_output(w, cmd) == enqueue(asap_cell(w, cmd), Len(w.cell) + 1)

\* the status failure reported as a finished computation
waiting_done(w2) == IF Ok(w2) THEN Ret(w2, "d") ELSE w2

\* lines 2688-2690: 'w' once start_next_comp() has returned
waiting(w2) == IF Ok(w2) THEN Ret(w2, "w") ELSE w2

\* A cell's directory is a set of entries [name, what]: a regular file, a
\* directory or a symbolic link to the process's path of that name.
Named(dir, name) == {e \in dir : e.name = name}

\* lines 2701-2709: symbolic links to the output files seen so far; kind
\* tells what the process's paths are when they are looked at ("file",
\* "dir" or "gone").  os.path.exists(target) follows links, so a dangling
\* link is not unlinked and os.symlink raises; os.unlink raises on a
\* directory.
RECURSIVE link_files(_, _, _)
link_files(dir, names, kind) ==
    IF names = <<>> THEN [dir |-> dir, exc |-> "none"]
    ELSE IF \E e \in Named(dir, Head(names)) :
                \/ e.what = "dir"
                \/ e.what = "link" /\ kind[Head(names)] = "gone"
         THEN [dir |-> dir, exc |-> "OSError"]
         ELSE link_files((dir \ Named(dir, Head(names)))
                             \cup {[name |-> Head(names), what |-> "link"]},
                         Tail(names), kind)

\* lines 2742-2750: what os.path.isfile finds (it follows links) is
\* unlinked; shutil.rmtree(ignore_errors=True) removes a directory and
\* leaves a symbolic link where it is
sweep(dir, kind) == {e \in dir : e.what = "link" /\ kind[e.name] # "file"}

\* lines 2771-2783: the files are copied into the directory made anew;
\* shutil.copy raises when the file is gone, copytree when the target is
\* there
RECURSIVE move_files(_, _, _)
move_files(dir, names, kind) ==
    IF names = <<>> THEN [dir |-> dir, exc |-> "none"]
    ELSE IF kind[Head(names)] = "gone"
            \/ (kind[Head(names)] = "dir" /\ Named(dir, Head(names)) # {})
         THEN [dir |-> dir, exc |-> "OSError"]
         ELSE move_files((dir \ Named(dir, Head(names)))
                             \cup {[name |-> Head(names),
                                    what |-> kind[Head(names)]]},
                         Tail(names), kind)

\* still_computing that reports the cell done
still_computing_done(w1, C, out, r) ==
    LET w2 == [w1 EXCEPT !.cell[C].output = out.output,
                         !.cell[C].dir = r.dir]
    IN  IF r.exc = "none" THEN Ret(w2, "d") ELSE Raise(w2, r.exc)

\* lines 2694-2711: still computing; r is what link_files has done
still_computing(w1, C, out, r) ==
    LET w2 == [w1 EXCEPT !.cell[C].output = out.output,
                         !.cell[C].dir = r.dir]
    IN  IF r.exc = "none" THEN Ret(w2, "w") ELSE Raise(w2, r.exc)

\* lines 2753-2789: the files are moved and the output text set; r is what
\* move_files has done
finish_output(w1, C, out, r) ==
    IF r.exc = "none"
    THEN Ret([w1 EXCEPT !.cell[C].output = out.output,
                        !.cell[C].dir = r.dir], "d")
    ELSE Raise([w1 EXCEPT !.cell[C].dir = r.dir], r.exc)

\* lines 2734-2789: finished a computation
finished(w1, C, out) ==
    IF w1.cell[C].no_output
    THEN Ret([w1 EXCEPT !.cell[C].dir = sweep(@, out.kind)], "d")
    ELSE finish_output(w1, C, out,
                       IF out.filenames = <<>>
                       THEN [dir |-> w1.cell[C].dir, exc |-> "none"]
                       ELSE move_files({}, out.filenames, out.kind))

\* lines 2676-2789, once self.sage() has returned
check_head(w1, fails, out) ==
    IF ~Ok(w1) THEN w1
    ELSE IF w1.queue = <<>> THEN Raise(w1, "IndexError")
    ELSE
    LET C == w1.queue[1]
    IN  IF w1.cell[C].interrupted
        THEN Ret([w1 EXCEPT !.comp_is_running = FALSE,
                            !.queue = Tail(@)], "d")
        ELSE IF w1.sage = 0 THEN Raise(w1, "AttributeError")
        ELSE IF fails
        THEN waiting(start_next_comp(
                         [w1 EXCEPT !.comp_is_running = FALSE,
                                    !.procs[w1.sage].pending = 0]))
        ELSE IF w1.procs[w1.sage].busy
        THEN IF w1.cell[C].introspect # "no" THEN Ret(w1, "w")
             ELSE still_computing(w1, C, out,
                                  link_files(w1.cell[C].dir, out.filenames,
                                             out.kind))
        ELSE IF w1.cell[C].introspect = "empty" /\ ~w1.cell[C].no_output
        THEN \* lines 2713-2716: a bare return
             Ret(w1, "None")
        ELSE finished([w1 EXCEPT !.comp_is_running = FALSE,
                                 !.queue = Tail(@),
                                 !.procs[w1.sage].pending = 0], C, out)

\* Worksheet.check_comp(): fails tells whether output_status() raises
\* RuntimeError, out is the status the process reports: the output text,
\* the names of the output files and what the paths of these names are
check_comp(w, fails, out) ==
    IF Len(w.queue) = 0 THEN Ret(w, "e") ELSE check_head(sage(w), fails, out)

\* Worksheet.interrupt(timeout): stops tells whether the process has
\* stopped computing when the wait is over
interrupt(w, stops) ==
    IF Len(w.queue) = 0 THEN Ret(w, "True")
    ELSE IF w.sage = 0 THEN Raise(w, "AttributeError")
    ELSE LET busy1 == IF stops THEN FALSE ELSE w.procs[w.sage].busy
         IN  Ret([w EXCEPT !.procs[w.sage].busy = busy1,
                           !.procs[w.sage].pending = IF stops THEN 0 ELSE @,
                           !.signals = @ + 1],
                 IF busy1 THEN "False" ELSE "True")

(***************************************************************************)
(* The state of one worksheet: the fields of the Worksheet object, the     *)
(* cell objects it can reach and the processes spawned.  A second          *)
(* worksheet object is kept in other; procs holds the processes of both    *)
(* (all_worksheet_processes).  clock holds the wall-clock time and the     *)
(* time stamp __last_compute_walltime of the first worksheet.             *)
(* worksheets is the notebook's table of loaded worksheets (1 and 2 stand  *)
(* for the two worksheet objects), threads the position of the two threads *)
(* that quit the first worksheet step by step, updater the fields of the  *)
(* NotebookUpdater, global_lock and the position of each thread in        *)
(* update(), blocks the counter __next_block_id of the first worksheet and *)
(* the block ids of the cells it has submitted, in the order of the        *)
(* submissions.                                                            *)
(***************************************************************************)
VARIABLES published, cells, cell, queue, comp_is_running, handle, procs,
          next_id, next_hidden_id, other, clock, worksheets, threads,
          updater, blocks

vars == <<published, cells, cell, queue, comp_is_running, handle, procs,
          next_id, next_hidden_id, other, clock, worksheets, threads,
          updater, blocks>>

\* The worksheet as the operators above take it; s tells which attempt to
\* spawn a process fails (0: none), limit how many processes there may be
\* when the call is over (MaxSpawn of this worksheet's).
WS(s) ==
    [published |-> published, cells |-> cells, cell |-> cell,
     queue |-> queue, comp_is_running |-> comp_is_running, sage |-> handle,
     procs |-> procs, next_id |-> next_id,
     next_hidden_id |-> next_hidden_id,
     exc |-> "none", ret |-> "", signals |-> 0, submitted |-> <<>>,
     restarted |-> FALSE, spawn_fail |-> s, quit_raises |-> FALSE,
     tmp |-> <<>>,
     limit |-> MaxSpawn + (IF other.sage = 0 THEN 0 ELSE 1),
     now |-> clock.now, last |-> clock.last, registered |-> 1 \in worksheets,
     next_block_id |-> blocks.next_block_id, block_ids |-> blocks.ids,
     code_id |-> 0, cython |-> FALSE]

\* The second worksheet as the operators take it.
WS2 ==
    [published |-> other.published, cells |-> other.cells,
     cell |-> other.cell, queue |-> other.queue,
     comp_is_running |-> other.comp_is_running, sage |-> other.sage,
     procs |-> procs, next_id |-> other.next_id,
     next_hidden_id |-> other.next_hidden_id,
     exc |-> "none", ret |-> "", signals |-> 0, submitted |-> <<>>,
     restarted |-> FALSE, spawn_fail |-> 0, quit_raises |-> FALSE,
     tmp |-> <<>>,
     limit |-> Len(procs) + 1, now |-> clock.now, last |-> -1,
     registered |-> 2 \in worksheets,
     next_block_id |-> 0, block_ids |-> <<>>, code_id |-> 0,
     cython |-> FALSE]

\* the members of a list
Range(L) == {L[i] : i \in 1..Len(L)}

RECURSIVE Dedup(_)
Dedup(L) ==
    IF L = <<>> THEN <<>>
    ELSE LET r == Dedup(SubSeq(L, 1, Len(L) - 1))
             x == L[Len(L)]
         IN  IF \E i \in 1..Len(r) : r[i] = x THEN r ELSE Append(r, x)

\* the objects reachable from the cell list and the queue, in the order of
\* their first occurrence
Live(w) == Dedup(w.cells \o w.queue)

\* the state a call may leave within the bounds
InBounds(w) ==
    /\ w.exc # "bound"
    /\ Len(w.cells) <= MaxCells
    /\ Len(Live(w)) <= MaxObjects
    /\ w.next_id <= MaxId + 1
    /\ w.next_hidden_id >= -(MaxHidden + 1)

\* the variables' values in w: unreachable objects are dropped and the
\* others numbered in the order of Live
Pack(w) ==
    LET live == Live(w)
        idx(o) == CHOOSE i \in 1..Len(live) : live[i] = o
    IN  [cell |-> [i \in 1..Len(live) |-> w.cell[live[i]]],
         cells |-> [i \in 1..Len(w.cells) |-> idx(w.cells[i])],
         queue |-> [i \in 1..Len(w.queue) |-> idx(w.queue[i])]]

\* The fields of the first worksheet, the processes and the notebook's
\* table as a call leaves them.
Store(w) ==
    /\ InBounds(w)
    /\ \E st \in {Pack(w)} :
           /\ cell' = st.cell
           /\ cells' = st.cells
           /\ queue' = st.queue
    /\ published' = w.published
    /\ comp_is_running' = w.comp_is_running
    /\ handle' = w.sage
    /\ procs' = w.procs
    /\ next_id' = w.next_id
    /\ next_hidden_id' = w.next_hidden_id
    /\ worksheets' = IF w.registered THEN worksheets ELSE worksheets \ {1}

\* The state a call leaves (also when it raises), time stamp included.
CommitTimed(w) ==
    /\ Store(w)
    /\ other' = other
    /\ clock' = [now |-> clock.now, last |-> w.last]
    /\ threads' = threads
    /\ updater' = updater
    /\ blocks' = blocks

\* The state a call leaves (also when it raises) where the clock stands
\* still and no call reads the time stamp: the time stamp is not kept.
Commit(w) ==
    /\ Store(w)
    /\ other' = other
    /\ clock' = clock
    /\ threads' = threads
    /\ updater' = updater
    /\ blocks' = blocks

\* The state a call on the second worksheet leaves.
Commit2(w) ==
    /\ InBounds(w)
    /\ \E st \in {Pack(w)} :
           other' = [published |-> w.published, cells |-> st.cells,
                     cell |-> st.cell, queue |-> st.queue,
                     comp_is_running |-> w.comp_is_running, sage |-> w.sage,
                     next_id |-> w.next_id,
                     next_hidden_id |-> w.next_hidden_id]
    /\ procs' = w.procs
    /\ worksheets' = IF w.registered THEN worksheets ELSE worksheets \ {2}
    /\ UNCHANGED <<published, cells, cell, queue, comp_is_running, handle,
                   next_id, next_hidden_id, clock, threads,
                   updater, blocks>>

\* the timer thread of the idle check and a thread that serves a request
Threads == {"reaper", "request"}

\* Worksheet.__init__ and clear(): one empty compute cell; the notebook has
\* both worksheets in its table
Init ==
    /\ published \in BOOLEAN
    /\ cell = <<Cell(IntId(0), <<>>)>>
    /\ cells = <<1>>
    /\ queue = <<>>
    /\ comp_is_running = FALSE
    /\ handle = 0
    /\ procs = <<>>
    /\ next_id = 1
    /\ next_hidden_id = -1
    /\ other = [published |-> FALSE, cells |-> <<1>>,
                cell |-> <<Cell(IntId(0), <<>>)>>, queue |-> <<>>,
                comp_is_running |-> FALSE, sage |-> 0, next_id |-> 1,
                next_hidden_id |-> -1]
    /\ clock = [now |-> 0, last |-> -1]
    /\ worksheets = {1, 2}
    /\ threads = [t \in Threads |-> [pc |-> "idle", S |-> 0, exc |-> "none"]]
    /\ blocks = [next_block_id |-> 0, ids |-> <<>>]
    /\ updater = [last_save_time |-> 0, last_idle_time |-> 0,
                  global_lock |-> "free",
                  pc |-> [th \in Threads |-> "out"],
                  t |-> [th \in Threads |-> 0],
                  saves |-> <<>>, idles |-> <<>>]

(***************************************************************************)
(* Inputs of the calls.                                                    *)
(***************************************************************************)
InA == <<"a">>

InRestart == <<"r", "e", "s", "t", "a", "r", "t">>

\* the names of the files a process writes
Names == {"x"}

\* what the process reports: no output and no files
Outs ==
    {[output |-> <<>>, filenames |-> <<>>, kind |-> [n \in Names |-> "file"]]}

OutO == <<"o">>

\* what the process reports when it writes output and files
PollOuts ==
    {[output |-> o, filenames |-> f, kind |-> [n \in Names |-> k]] :
        o \in {<<>>, OutO}, f \in {<<>>, <<"x">>},
        k \in {"file", "dir", "gone"}}

\* the commands of eval_asap_no_output
Cmds == {InA, InRestart}

CellIds == {IntId(n) : n \in 0..MaxId}

Block(meta, input) == OPEN \o meta \o NL \o input \o NLCLOSE

MetaId(t) == <<"i", "d", "=">> \o t \o <<"|">>

SampleTexts ==
    { <<>>,
      Block(MetaId(<<"0">>), PercentAuto) \o Block(MetaId(<<"0">>), <<>>),
      <<"t">> \o Block(<<>>, <<>>) }

\* A foreign cell, of another worksheet
Foreign(text) ==
    [(IF text THEN TextCell(IntId(0), <<>>) ELSE Cell(IntId(0), <<>>))
        EXCEPT !.ws = "other"]

\* the worksheet with the foreign cell F at hand (F is Newest)
WithForeign(F) == [WS(0) EXCEPT !.cell = Append(@, F)]

\* A spawn can be attempted when there is no process or the process is
\* restarted; only then is its failure an input of the call.
SpawnFails == 0..1

\* the blocks of the markup texts of the codec specification
CodecBlocks ==
    { <<>>, <<"t">>,
      Block(<<>>, InA),
      Block(<<>>, InA \o NLSEP \o NL \o OutO),
      Block(<<>>, InA \o NLSEP \o OutO),
      Block(MetaId(<<"1">>), InA \o NLSEP \o NL \o OutO),
      Block(MetaId(<<"0">>), <<"/", "/", "/">>),
      Block(MetaId(<<"1">>), <<>>),
      Block(<<>>, PercentAuto \o NL \o InA),
      Block(<<>>, OutO),
      OPEN \o NL \o <<"u">> }

CodecTexts == {b1 \o b2 : b1 \in CodecBlocks, b2 \in CodecBlocks}

\* the blocks of the texts whose ids are examined: a text block, a block
\* with no id, with a non-negative, a negative and a string id
IdBlocks ==
    { <<>>, <<"t">>,
      Block(<<>>, InA),
      Block(MetaId(<<"1">>), InA),
      Block(MetaId(<<"-", "2">>), <<>>),
      Block(MetaId(<<"x">>), <<>>) }

IdTexts == {b1 \o b2 \o b3 : b1 \in IdBlocks, b2 \in IdBlocks, b3 \in IdBlocks}

\* blocks that are opened and not closed: with and without the end of the
\* line of the opening delimiter
Unterminated ==
    { OPEN, OPEN \o <<"u">>, OPEN \o MetaId(<<"1">>),
      OPEN \o NL, OPEN \o NL \o <<"u">>,
      OPEN \o MetaId(<<"1">>) \o NL \o <<"u">>,
      OPEN \o NL \o <<"u">> \o NLSEP \o NL \o OutO }

\* the text of the doctest of cell_id_list
TextNoIdAndTen ==
    Block(<<>>, <<"2", "+", "3">> \o NLSEP \o NL \o <<"5">>) \o NL
    \o Block(MetaId(<<"1", "0">>),
             <<"2", "+", "8">> \o NLSEP \o NL \o <<"1", "0">>)

\* the second text of the doctest of edit_save (trac #8443)
TextTrailingText ==
    Block(<<>>, <<"1", "+", "1">> \o NLSEP) \o NL \o NL
    \o <<"<", "p", ">", "a", " ", "t", "e", "x", "t", " ", "c", "e", "l",
         "l", "<", "/", "p", ">">>

(***************************************************************************)
(* The calls.                                                              *)
(***************************************************************************)
\* W.enqueue(C) for a cell object C of this worksheet
Enqueue(C, s) ==
    \E w2 \in {enqueue(WS(s), C)} :
        (s = 0 \/ w2.spawn_fail = 0) /\ Commit(w2)

\* W.enqueue(C) for a cell C of another worksheet
EnqueueForeign(text) ==
    \E w2 \in {enqueue(WithForeign(Foreign(text)), Len(cell) + 1)} :
        Commit(w2)

EvalAsapNoOutput(cmd, s) ==
    \E w2 \in {eval_asap_no_output(WS(s), cmd)} :
        (s = 0 \/ w2.spawn_fail = 0) /\ Commit(w2)

StartNextComp(s) ==
    \E w2 \in {start_next_comp(WS(s))} :
        (s = 0 \/ w2.spawn_fail = 0) /\ Commit(w2)

CheckComp(fails, out, s) ==
    \E w2 \in {check_comp(WS(s), fails, out)} :
        (s = 0 \/ w2.spawn_fail = 0) /\ Commit(w2)

Interrupt(stops) == \E w2 \in {interrupt(WS(0), stops)} : Commit(w2)

ClearQueue == \E w2 \in {clear_queue(WS(0))} : Commit(w2)

RestartSage(s) ==
    \E w2 \in {restart_sage(WS(s))} :
        (s = 0 \/ w2.spawn_fail = 0) /\ Commit(w2)

\* W.quit(); raises tells whether S.quit() raises
Quit(raises) ==
    \E w2 \in {quit([WS(0) EXCEPT !.quit_raises = raises])} : Commit(w2)

AppendNewCell == \E w2 \in {append_new_cell(WS(0))} : Commit(w2)

NewCellBefore(id, input) ==
    \E w2 \in {insert_new_cell(WS(0), id, input, FALSE, FALSE)} : Commit(w2)

NewCellAfter(id, input) ==
    \E w2 \in {insert_new_cell(WS(0), id, input, FALSE, TRUE)} : Commit(w2)

NewTextCellBefore(id, input) ==
    \E w2 \in {insert_new_cell(WS(0), id, input, TRUE, FALSE)} : Commit(w2)

NewTextCellAfter(id, input) ==
    \E w2 \in {insert_new_cell(WS(0), id, input, TRUE, TRUE)} : Commit(w2)

DeleteCellWithId(id) ==
    \E w2 \in {delete_cell_with_id(WS(0), id)} : Commit(w2)

EditSave(text, ignore_ids) ==
    \E w2 \in {edit_save(WS(0), text, ignore_ids, TRUE)} : Commit(w2)

\* The process finishes what it is computing.
ProcFinishes ==
    /\ handle # 0
    /\ procs[handle].busy
    /\ procs' = [procs EXCEPT ![handle].busy = FALSE,
                              ![handle].pending = 0]
    /\ UNCHANGED <<published, cells, cell, queue, comp_is_running, handle,
                   next_id, next_hidden_id, other, clock, worksheets,
                   threads, updater, blocks>>

Next ==
    \/ \E C \in 1..Len(cell), s \in SpawnFails : Enqueue(C, s)
    \/ \E text \in BOOLEAN : EnqueueForeign(text)
    \/ \E cmd \in Cmds, s \in SpawnFails : EvalAsapNoOutput(cmd, s)
    \/ \E s \in SpawnFails : StartNextComp(s)
    \/ \E fails \in BOOLEAN, out \in Outs, s \in SpawnFails :
           CheckComp(fails, out, s)
    \/ \E stops \in BOOLEAN : Interrupt(stops)
    \/ ClearQueue
    \/ \E s \in SpawnFails : RestartSage(s)
    \/ Quit(FALSE)
    \/ AppendNewCell
    \/ \E id \in CellIds : NewCellBefore(id, <<>>)
    \/ \E id \in CellIds : NewCellAfter(id, <<>>)
    \/ \E id \in CellIds : NewTextCellBefore(id, <<"t">>)
    \/ \E id \in CellIds : NewTextCellAfter(id, <<"t">>)
    \/ \E id \in CellIds : DeleteCellWithId(id)
    \/ \E text \in SampleTexts, ignore_ids \in BOOLEAN :
           EditSave(text, ignore_ids)
    \/ ProcFinishes

Spec == Init /\ [][Next]_vars

(***************************************************************************)
(* The codec alone: the cell lists edit_save builds from markup texts.     *)
(***************************************************************************)
NextCodec ==
    \E text \in CodecTexts, ignore_ids \in BOOLEAN : EditSave(text, ignore_ids)

SpecCodec == Init /\ [][NextCodec]_vars

(***************************************************************************)
(* Polling alone: cells are queued and polled while the process writes     *)
(* output and files.                                                       *)
(***************************************************************************)
NextPoll ==
    \/ EvalAsapNoOutput(InA, 0)
    \/ \E C \in 1..Len(cell) : Enqueue(C, 0)
    \/ \E out \in PollOuts : CheckComp(FALSE, out, 0)
    \/ ProcFinishes

SpecPoll == Init /\ [][NextPoll]_vars

(***************************************************************************)
(* Idle reaping: time passes between the calls that record activity and    *)
(* the calls of quit_if_idle.                                              *)
(***************************************************************************)
\* walltime() grows
Tick ==
    /\ clock.now < MaxTime
    /\ clock' = [clock EXCEPT !.now = @ + 1]
    /\ UNCHANGED <<published, cells, cell, queue, comp_is_running, handle,
                   procs, next_id, next_hidden_id, other, worksheets,
                   threads, updater, blocks>>

EnqueueAt(C) == \E w2 \in {enqueue(WS(0), C)} : CommitTimed(w2)

Ping == \E w2 \in {ping(WS(0))} : CommitTimed(w2)

QuitIfIdle(timeout) ==
    \E w2 \in {quit_if_idle(WS(0), timeout)} : CommitTimed(w2)

NextIdle ==
    \/ Tick
    \/ \E C \in 1..Len(cell) : EnqueueAt(C)
    \/ Ping
    \/ \E timeout \in -1..MaxTime : QuitIfIdle(timeout)
    \/ ProcFinishes

SpecIdle == Init /\ [][NextIdle]_vars

(***************************************************************************)
(* Threads: the timer thread runs idle_check under global_lock and a       *)
(* request thread runs send_worksheet_to_stop, which takes no lock; both   *)
(* call W.quit(), whose statements are the steps.  A thread is outside     *)
(* quit() (idle), before S.quit() (quit) or before del self.__sage (del);  *)
(* the timer thread holds global_lock while it is not idle.                *)
(***************************************************************************)
\* the idle timeouts of the notebook's configuration
IdleTimeouts == 1..2

Idling == [pc |-> "idle", S |-> 0, exc |-> "none"]

\* lines 2468-2473 of quit() in the thread t: S = self.__sage, or
\* quit_worksheet and return when there is no handle
quit_begin(t) ==
    IF handle = 0
    THEN /\ worksheets' = worksheets \ {1}
         /\ threads' = threads
    ELSE /\ worksheets' = worksheets
         /\ threads' = [threads EXCEPT ![t] = [pc |-> "quit", S |-> handle,
                                               exc |-> "none"]]

\* idle_check of the timer thread: quit_idle_worksheet_processes calls
\* quit_if_idle on a loaded worksheet whose process has been started, and
\* quit_if_idle enters quit() when the worksheet has idled long enough
ReaperBegin(timeout) ==
    /\ threads["reaper"].pc = "idle"
    /\ 1 \in worksheets
    /\ handle # 0
    /\ procs[handle].started
    /\ IF clock.last = -1
       THEN /\ clock' = [clock EXCEPT !.last = clock.now]
            /\ UNCHANGED <<worksheets, threads>>
       ELSE /\ clock.now - clock.last > timeout
            /\ clock' = clock
            /\ quit_begin("reaper")
    /\ UNCHANGED <<published, cells, cell, queue, comp_is_running, handle,
                   procs, next_id, next_hidden_id, other, updater, blocks>>

\* send_worksheet_to_stop of a request thread: W.quit()
RequestBegin ==
    /\ threads["request"].pc = "idle"
    /\ quit_begin("request")
    /\ UNCHANGED <<published, cells, cell, queue, comp_is_running, handle,
                   procs, next_id, next_hidden_id, other, clock, updater,
                   blocks>>

\* lines 2475-2481 of quit() in the thread t: S.quit()
QuitProcess(t) ==
    /\ threads[t].pc = "quit"
    /\ procs' = [procs EXCEPT ![threads[t].S] = DeadProc]
    /\ threads' = [threads EXCEPT ![t].pc = "del"]
    /\ UNCHANGED <<published, cells, cell, queue, comp_is_running, handle,
                   next_id, next_hidden_id, other, clock, worksheets,
                   updater, blocks>>

\* lines 2483-2497 of quit() in the thread t; the AttributeError of
\* del self.__sage ends the call
QuitDrop(t) ==
    /\ threads[t].pc = "del"
    /\ \E w2 \in {quit_drop(WS(0))} :
           /\ Store(w2)
           /\ threads' = [threads EXCEPT ![t] = [Idling EXCEPT !.exc = w2.exc]]
    /\ UNCHANGED <<other, clock, updater, blocks>>

NextRace ==
    \/ Tick
    \/ \E C \in 1..Len(cell) : EnqueueAt(C)
    \/ ProcFinishes
    \/ \E timeout \in IdleTimeouts : ReaperBegin(timeout)
    \/ RequestBegin
    \/ \E t \in Threads : QuitProcess(t)
    \/ \E t \in Threads : QuitDrop(t)

SpecRace == Init /\ [][NextRace]_vars

(***************************************************************************)
(* NotebookUpdater: every thread that calls update() runs save_check and   *)
(* then idle_check.  Each samples the time, tests it against the time of   *)
(* the last sweep without the lock, and tests it again under global_lock   *)
(* before it sweeps.  A thread is outside update() (out), waits for the    *)
(* lock (save_wait, idle_wait), sweeps under the lock (save_body,          *)
(* idle_body) or is between the two checks (idle_check).  saves and idles  *)
(* list the sample times of the sweeps in the order they were made.        *)
(***************************************************************************)
\* notebook.conf['save_interval'] and conf['idle_check_interval']
save_interval == 1

idle_interval == 1

\* t > self.last_save_time + self.save_interval
save_due(t) == t > updater.last_save_time + save_interval

\* t > self.last_idle_time + self.idle_interval
idle_due(t) == t > updater.last_idle_time + idle_interval

\* a lock that is never held
never_locked == FALSE

\* global_lock is held by a thread
locked == updater.global_lock # "free"

UpdaterStep(u) ==
    /\ updater' = u
    /\ UNCHANGED <<published, cells, cell, queue, comp_is_running, handle,
                   procs, next_id, next_hidden_id, other, clock, worksheets,
                   threads, blocks>>

\* update() calls save_check: t = walltime() and the test without the lock
SaveCheck(th) ==
    /\ updater.pc[th] = "out"
    /\ UpdaterStep([updater EXCEPT
           !.t[th] = clock.now,
           !.pc[th] = IF save_due(clock.now) THEN "save_wait"
                      ELSE "idle_check"])

\* with global_lock: the test is made again; the lock is given back at once
\* when it fails
SaveEnter(th) ==
    /\ updater.pc[th] = "save_wait"
    /\ ~locked
    /\ UpdaterStep(IF save_due(updater.t[th])
                   THEN [updater EXCEPT !.global_lock = th,
                                        !.pc[th] = "save_body"]
                   ELSE [updater EXCEPT !.pc[th] = "idle_check"])

\* notebook.save() writes the worksheets to the storage;
\* self.last_save_time = t; the lock is released
SaveSweep(th) ==
    /\ updater.pc[th] = "save_body"
    /\ UpdaterStep([updater EXCEPT
           !.last_save_time = updater.t[th],
           !.saves = Append(@, updater.t[th]),
           !.global_lock = "free",
           !.pc[th] = "idle_check"])

\* update() calls idle_check: t = walltime() and the test without the lock
IdleCheck(th) ==
    /\ updater.pc[th] = "idle_check"
    /\ UpdaterStep([updater EXCEPT
           !.t[th] = clock.now,
           !.pc[th] = IF idle_due(clock.now) THEN "idle_wait" ELSE "out"])

IdleEnter(th) ==
    /\ updater.pc[th] = "idle_wait"
    /\ ~locked
    /\ UpdaterStep(IF idle_due(updater.t[th])
                   THEN [updater EXCEPT !.global_lock = th,
                                        !.pc[th] = "idle_body"]
                   ELSE [updater EXCEPT !.pc[th] = "out"])

\* quit_idle_worksheet_processes on the first worksheet: quit_if_idle when
\* it is loaded and its process has been started.  (The second worksheet
\* has no process in this specification.)
quit_idle_worksheet_processes(w, timeout) ==
    IF w.registered /\ w.sage # 0 /\ w.procs[w.sage].started
    THEN quit_if_idle(w, timeout)
    ELSE w

\* The sweep: update_worksheet_processes, quit_idle_worksheet_processes,
\* self.last_idle_time = t, and the lock is released; an exception of the
\* sweep leaves the with block before the assignment.
IdleSweep(th, timeout) ==
    /\ updater.pc[th] = "idle_body"
    /\ \E w2 \in {quit_idle_worksheet_processes(WS(0), timeout)} :
           /\ Store(w2)
           /\ clock' = [now |-> clock.now, last |-> w2.last]
           /\ updater' = [updater EXCEPT
                  !.last_idle_time = IF Ok(w2) THEN updater.t[th] ELSE @,
                  !.idles = Append(@, updater.t[th]),
                  !.global_lock = "free",
                  !.pc[th] = "out"]
    /\ UNCHANGED <<other, threads, blocks>>

NextUpd ==
    \/ Tick
    \/ \E C \in 1..Len(cell) : EnqueueAt(C)
    \/ ProcFinishes
    \/ \E th \in Threads : SaveCheck(th)
    \/ \E th \in Threads : SaveEnter(th)
    \/ \E th \in Threads : SaveSweep(th)
    \/ \E th \in Threads : IdleCheck(th)
    \/ \E th \in Threads : IdleEnter(th)
    \/ \E th \in Threads, timeout \in IdleTimeouts : IdleSweep(th, timeout)

SpecUpd == Init /\ [][NextUpd]_vars

(***************************************************************************)
(* Block ids: the calls that submit cells of the first worksheet, with the *)
(* counter __next_block_id and the block ids of the submissions kept.      *)
(***************************************************************************)
\* The state a call leaves, block counter and submitted block ids included.
CommitBlocks(w) ==
    /\ Store(w)
    /\ Len(w.block_ids) <= MaxBlocks
    /\ blocks' = [next_block_id |-> w.next_block_id, ids |-> w.block_ids]
    /\ UNCHANGED <<other, clock, threads, updater>>

\* W.enqueue(C); cython tells whether the cell to start is a %cython cell
EnqueueBlock(C, cython) ==
    \E w2 \in {enqueue([WS(0) EXCEPT !.cython = cython], C)} :
        CommitBlocks(w2)

\* W.check_comp()
CheckCompBlock ==
    \E out \in Outs : \E w2 \in {check_comp(WS(0), FALSE, out)} :
        CommitBlocks(w2)

\* W.restart_sage()
RestartSageBlock == \E w2 \in {restart_sage(WS(0))} : CommitBlocks(w2)

NextBlock ==
    \/ \E C \in 1..Len(cell), cython \in BOOLEAN : EnqueueBlock(C, cython)
    \/ CheckCompBlock
    \/ RestartSageBlock
    \/ AppendNewCell
    \/ ProcFinishes

SpecBlock == Init /\ [][NextBlock]_vars

(***************************************************************************)
(* Hidden cells and reparses: eval_asap_no_output queues hidden cells      *)
(* while edit_save installs the cells of texts that declare ids.           *)
(***************************************************************************)
\* texts whose blocks declare no id, a positive and a negative id
DeclaringTexts ==
    { Block(<<>>, InA),
      Block(MetaId(<<"1">>), InA),
      Block(MetaId(<<"-", "1">>), InA),
      Block(MetaId(<<"-", "1">>), InA) \o Block(MetaId(<<"-", "2">>), <<>>) }

NextHidden ==
    \/ EvalAsapNoOutput(InA, 0)
    \/ \E C \in 1..Len(cell) : Enqueue(C, 0)
    \/ \E text \in DeclaringTexts, ignore_ids \in BOOLEAN :
           EditSave(text, ignore_ids)
    \/ \E out \in Outs : CheckComp(FALSE, out, 0)
    \/ ProcFinishes

SpecHidden == Init /\ [][NextHidden]_vars

(***************************************************************************)
(* Introspection: cells are queued for evaluation or with a request for    *)
(* completions or help, and polled.                                        *)
(***************************************************************************)
EvaluateIntrospect(C, before) ==
    \E w2 \in {evaluate_introspect(WS(0), C, before)} : Commit(w2)

NextIntro ==
    \/ \E C \in 1..Len(cell) : Enqueue(C, 0)
    \/ \E C \in 1..Len(cell), before \in {"empty", "text"} :
           EvaluateIntrospect(C, before)
    \/ \E out \in PollOuts : CheckComp(FALSE, out, 0)
    \/ AppendNewCell
    \/ ProcFinishes

SpecIntro == Init /\ [][NextIntro]_vars

(***************************************************************************)
(* Draining the queue: every cell is queued at most once, for evaluation   *)
(* or with an introspection request, and the driver polls and starts the   *)
(* next computation again and again.  A spawn may fail, but not every      *)
(* time; the process finishes what it computes and reports its status.     *)
(***************************************************************************)
\* the cell objects that have not been queued yet
Fresh == {C \in 1..Len(cell) : cell[C].output = <<>> /\ C \notin Range(queue)}

\* what the process reports: output and no files
Reports == {out \in PollOuts : out.output = OutO /\ out.filenames = <<>>}

EnqueueFresh(s) == \E C \in Fresh : Enqueue(C, s)

IntrospectFresh ==
    \E C \in Fresh, before \in {"empty", "text"} :
        EvaluateIntrospect(C, before)

\* the driver's check_comp with a process that can be spawned
Poll == \E out \in Reports : CheckComp(FALSE, out, 0)

NextDrain ==
    \/ \E s \in SpawnFails : EnqueueFresh(s)
    \/ IntrospectFresh
    \/ AppendNewCell
    \/ \E s \in SpawnFails : StartNextComp(s)
    \/ Poll
    \/ \E out \in Reports : CheckComp(FALSE, out, 1)
    \/ ProcFinishes

SpecDrain ==
    /\ Init
    /\ [][NextDrain]_vars
    /\ WF_vars(StartNextComp(0))
    /\ WF_vars(Poll)
    /\ WF_vars(ProcFinishes)

(***************************************************************************)
(* Two worksheets: the scheduler calls on the first while the cell of the  *)
(* second is queued, computed and polled.                                  *)
(***************************************************************************)
\* W2.enqueue(C) for the cell of the second worksheet
Enqueue2 == \E w2 \in {enqueue(WS2, 1)} : Commit2(w2)

\* W2.check_comp()
CheckComp2 ==
    \E out \in Outs : \E w2 \in {check_comp(WS2, FALSE, out)} : Commit2(w2)

\* The process of the second worksheet finishes what it is computing.
ProcFinishes2 ==
    /\ other.sage # 0
    /\ procs[other.sage].busy
    /\ procs' = [procs EXCEPT ![other.sage].busy = FALSE,
                              ![other.sage].pending = 0]
    /\ UNCHANGED <<published, cells, cell, queue, comp_is_running, handle,
                   next_id, next_hidden_id, other, clock, worksheets,
                   threads, updater, blocks>>

\* the scheduler calls on the first worksheet
Calls1 ==
    \/ \E C \in 1..Len(cell), s \in SpawnFails : Enqueue(C, s)
    \/ \E fails \in BOOLEAN, out \in Outs, s \in SpawnFails :
           CheckComp(fails, out, s)
    \/ \E stops \in BOOLEAN : Interrupt(stops)
    \/ ClearQueue
    \/ \E s \in SpawnFails : RestartSage(s)
    \/ \E raises \in BOOLEAN : Quit(raises)

NextTwo == Calls1 \/ ProcFinishes \/ Enqueue2 \/ CheckComp2 \/ ProcFinishes2

SpecTwo == Init /\ [][NextTwo]_vars

\* The second worksheet is polled again and again, and its process finishes
\* what it computes.
SpecTwoLive == SpecTwo /\ WF_vars(CheckComp2) /\ WF_vars(ProcFinishes2)

(***************************************************************************)
(* Properties.  A property of a call is stated on the state the call is    *)
(* made in: the operators above give the state it leaves.                  *)
(***************************************************************************)
\* the members of S in the order they have in L
RECURSIVE Restrict(_, _)
Restrict(L, S) ==
    IF L = <<>> THEN <<>>
    ELSE (IF Head(L) \in S THEN <<Head(L)>> ELSE <<>>) \o Restrict(Tail(L), S)

QueueIds(w) == [i \in 1..Len(w.queue) |-> w.cell[w.queue[i]].id]

\* C1 (at most one running): no process that has not been quit has more
\* than one submission in flight, i.e. execute is never called on a handle
\* that has not finished, failed or been interrupted out of what was
\* submitted to it before.
C1_AtMostOneInFlight ==
    \A p \in 1..Len(procs) : ~procs[p].quit => procs[p].pending <= 1

\* the queue is empty and nothing is running
Idle == ~published /\ queue = <<>> /\ ~comp_is_running

\* the compute cells of the worksheet that are no asap cells and no restart
\* keywords
NormalCells ==
    {B \in 1..Len(cell) :
        /\ cell[B].kind = "compute"
        /\ ~cell[B].asap
        /\ cleaned_input_text(cell[B]) \notin RestartKeywords}

\* enqueue(B), enqueue(A), enqueue(C) for two new asap cells A and C
EnqueueBAC(B) ==
    eval_asap_no_output(eval_asap_no_output(enqueue(WS(0), B), InA), InA)

\* the ids of B, A and C in the queue EnqueueBAC leaves
OrderBAC(w3, B) ==
    Restrict(QueueIds(w3), {cell[B].id, IntId(next_hidden_id),
                            IntId(next_hidden_id - 1)})

\* C2 (queue ordering) as stated: from an idle worksheet enqueue(B),
\* enqueue(A), enqueue(C) with A and C asap and B normal leave the three
\* cells queued in the order A, C, B.
C2_OrderACB ==
    Idle =>
        \A B \in NormalCells : \A w3 \in {EnqueueBAC(B)} :
            Ok(w3) =>
                OrderBAC(w3, B) = <<IntId(next_hidden_id),
                                    IntId(next_hidden_id - 1), cell[B].id>>

\* C2 (queue ordering), amended: from an idle worksheet that is not
\* published, enqueue(B), enqueue(A), enqueue(C) leave the three cells in
\* the order B, A, C with B computing at the head, because enqueue(B)
\* starts B at once and asap cells go behind the running head; the order
\* A, C, B results exactly when B is flagged interrupted and so is not
\* started.
C2_OrderBAC ==
    Idle =>
        \A B \in NormalCells : \A w3 \in {EnqueueBAC(B)} :
            Ok(w3) =>
                IF cell[B].interrupted
                THEN OrderBAC(w3, B) = <<IntId(next_hidden_id),
                                         IntId(next_hidden_id - 1),
                                         cell[B].id>>
                ELSE /\ OrderBAC(w3, B) = <<cell[B].id,
                                            IntId(next_hidden_id),
                                            IntId(next_hidden_id - 1)>>
                     /\ w3.queue[1] = B
                     /\ w3.comp_is_running

\* C2 witness: a normal cell is computing at the head and two asap cells,
\* in the order they were enqueued, follow it.
C2_Witness ==
    /\ Len(queue) = 3
    /\ comp_is_running
    /\ ~cell[queue[1]].asap
    /\ cell[queue[2]].asap
    /\ cell[queue[3]].asap
    /\ cell[queue[2]].id.n > cell[queue[3]].id.n

\* the compute cells of the worksheet that are not queued
Unqueued ==
    {C \in 1..Len(cell) : cell[C].kind = "compute" /\ ~InQueue(WS(0), C)}

\* where enqueue has put C: w is the worksheet enqueue(C) was called on and
\* w2 the one it has left; tail tells whether a cell that is no asap cell
\* has to be the last entry
Placed(w, w2, C, tail) ==
    LET P == {i \in 1..Len(w2.queue) : w2.queue[i] = C}
    IN  /\ Cardinality(P) = 1
        /\ Restrict(w2.queue, Range(w.queue)) = w.queue
        /\ \A p \in P :
              IF w.cell[C].asap
              THEN /\ w.comp_is_running => p > 1
                   /\ \A i \in 1..(p - 1) :
                         \/ w2.cell[w2.queue[i]].asap
                         \/ i = 1 /\ w.comp_is_running
                   /\ \A i \in (p + 1)..Len(w2.queue) :
                         ~w2.cell[w2.queue[i]].asap
              ELSE /\ \A i \in 1..Len(w2.queue) :
                         w2.queue[i] \in Range(w.queue) => i < p
                   /\ \A i \in (p + 1)..Len(w2.queue) :
                         is_auto_cell(w2.cell[w2.queue[i]])
                   /\ tail => p = Len(w2.queue)

\* C3 (asap placement) as stated: enqueue(C) for a compute cell C that is
\* not queued leaves C in the queue, behind the running head and every asap
\* cell and before every other entry when C is asap, as the last entry
\* when it is not, the cells queued before in their order.
C3_PlacementAsStated ==
    ~published =>
        /\ \A C \in Unqueued : \A w2 \in {enqueue(WS(0), C)} :
               Ok(w2) => Placed(WS(0), w2, C, TRUE)
        /\ \A cmd \in Cmds : \A w2 \in {eval_asap_no_output(WS(0), cmd)} :
               Ok(w2) =>
                   Placed(asap_cell(WS(0), cmd), w2, Len(cell) + 1, TRUE)

\* C3 (asap placement), amended: unless the scheduling step that ends enqueue restarts the process
\* (which clears the queue), enqueue(C) for a compute cell C that is not
\* queued leaves C queued once, the cells queued before in their order,
\* an asap C behind the running head and every asap cell and before every
\* other entry, and any other C behind every cell queued before; behind
\* such a C there are only auto cells, queued by a process the call has
\* spawned.
C3_Placement ==
    ~published =>
        /\ \A C \in Unqueued : \A w2 \in {enqueue(WS(0), C)} :
               Ok(w2) /\ ~w2.restarted => Placed(WS(0), w2, C, FALSE)
        /\ \A cmd \in Cmds : \A w2 \in {eval_asap_no_output(WS(0), cmd)} :
               Ok(w2) /\ ~w2.restarted =>
                   Placed(asap_cell(WS(0), cmd), w2, Len(cell) + 1, FALSE)

\* C3 witness: an asap cell stands behind the running head and before a
\* cell that is no asap cell.
C3_Witness ==
    /\ Len(queue) = 3
    /\ comp_is_running
    /\ ~cell[queue[1]].asap
    /\ cell[queue[2]].asap
    /\ ~cell[queue[3]].asap

CellSeq(w) ==
    [i \in 1..Len(w.cells) |->
        <<w.cell[w.cells[i]].id, w.cell[w.cells[i]].input,
          w.cell[w.cells[i]].output>>]

\* w2 is what edit_save(T1) makes of w, T1 being the body of w
SameAgain(w, T1, w2) == CellSeq(w2) = CellSeq(w) /\ body(w2) = T1

\* C5 (round trip): the cell list edit_save has built is built again, with
\* the same ids, inputs and outputs, by edit_save of its body(), and the
\* body() of the second list is the body() of the first.
C5_RoundTrip ==
    \A T1 \in {body(WS(0))} :
        \A w2 \in {edit_save(WS(0), T1, FALSE, TRUE)} :
            SameAgain(WS(0), T1, w2)

\* start_next_comp() finds a restart keyword at the head of the queue
RestartDue ==
    /\ queue # <<>>
    /\ ~comp_is_running
    /\ ~cell[queue[1]].interrupted
    /\ cleaned_input_text(cell[queue[1]]) \in RestartKeywords

\* what the scheduling step leaves that found the restart cell R at the
\* head: w is the worksheet before it, w2 the one after it; empty tells
\* whether the queue has to be empty
AfterRestart(w, w2, R, empty) ==
    /\ w2.restarted
    /\ w2.sage > Len(w.procs)
    /\ w2.procs[w2.sage].started
    /\ \A p \in 1..Len(w.procs) : w2.procs[p].quit
    /\ \A i \in 1..Len(w2.submitted) :
          /\ w2.submitted[i].input \notin RestartKeywords
          /\ w2.submitted[i].obj \notin Range(w.queue) \cup {R}
    /\ w2.cell[R].output = ExitedText
    /\ \A i \in 1..Len(w2.queue) :
          /\ w2.queue[i] \notin Range(w.queue) \cup {R}
          /\ w2.queue[i] \in Range(w2.cells)
          /\ is_auto_cell(w2.cell[w2.queue[i]])
    /\ (\A i \in 1..Len(w2.cells) : ~is_auto_cell(w2.cell[w2.cells[i]]))
           => w2.queue = <<>>
    /\ empty => w2.queue = <<>>

\* C6 (restart keyword) as stated: the scheduling step that finds a restart
\* keyword at the head of the queue restarts the process, leaves the queue
\* empty, passes neither the keyword nor a cell of the old queue to
\* execute and gives the cell no interpreter output.
C6_RestartAsStated ==
    /\ RestartDue =>
           \A w2 \in {start_next_comp(WS(0))} :
               Ok(w2) => AfterRestart(WS(0), w2, queue[1], TRUE)
    /\ Idle =>
           \A w2 \in {eval_asap_no_output(WS(0), InRestart)} :
               Ok(w2) => AfterRestart(asap_cell(WS(0), InRestart), w2,
                                      Len(cell) + 1, TRUE)

\* C6 (restart keyword), amended: the scheduling step that finds a restart
\* keyword at the head of the queue restarts the process (every process of
\* before is quit, the handle is a new started one), passes neither the
\* keyword nor a cell of the old queue to execute and gives the cell the
\* text 'Exited sage process' as output; when it returns the queue holds
\* no cell of the old queue but only auto cells of the cell list, which
\* the new process has enqueued, so it is empty when the worksheet has no
\* auto cell.
C6_Restart ==
    /\ RestartDue =>
           \A w2 \in {start_next_comp(WS(0))} :
               Ok(w2) => AfterRestart(WS(0), w2, queue[1], FALSE)
    /\ Idle =>
           \A w2 \in {eval_asap_no_output(WS(0), InRestart)} :
               Ok(w2) => AfterRestart(asap_cell(WS(0), InRestart), w2,
                                      Len(cell) + 1, FALSE)

\* C6 witness: a restart keyword waits at the head of the queue of a
\* worksheet with a process, and the scheduling step restarts the process
\* and leaves an auto cell computing.
C6_Witness ==
    /\ RestartDue
    /\ handle # 0
    /\ \A w2 \in {start_next_comp(WS(0))} :
           /\ Ok(w2)
           /\ w2.restarted
           /\ w2.queue # <<>>
           /\ w2.comp_is_running

\* C7 (interrupt result and frame): interrupt() on an empty queue returns
\* True without a signal; on a queue that is not empty it signals the
\* process once and returns True iff the process is not computing after
\* the wait; the queue and the computing flag are as before.
C7_InterruptFrame ==
    \A stops \in BOOLEAN : \A w2 \in {interrupt(WS(0), stops)} :
        /\ w2.queue = queue
        /\ w2.comp_is_running = comp_is_running
        /\ IF queue = <<>>
           THEN w2.ret = "True" /\ w2.signals = 0
           ELSE /\ w2.signals = 1
                /\ w2.sage # 0
                /\ w2.ret = IF w2.procs[w2.sage].busy THEN "False" ELSE "True"

\* C8 (interrupt never raises): interrupt() ends with a boolean result and
\* raises no exception, whatever the state of the worksheet.
C8_InterruptNeverRaises ==
    \A stops \in BOOLEAN : \A w2 \in {interrupt(WS(0), stops)} :
        Ok(w2) /\ w2.ret \in {"True", "False"}

\* the text cells of the worksheet
TextCells == {C \in 1..Len(cell) : cell[C].kind = "text"}

\* the call has changed neither the queue nor the computing flag nor the
\* process handle and has submitted nothing
Untouched(w2) ==
    /\ w2.queue = queue
    /\ w2.comp_is_running = comp_is_running
    /\ w2.sage = handle
    /\ w2.procs = procs
    /\ w2.submitted = <<>>

\* C9 (enqueue rejection) as stated: enqueue(C) raises TypeError when C is
\* no compute cell and ValueError when C belongs to another worksheet, and
\* then leaves the queue, the computing flag and the process untouched.
C9_RejectionAsStated ==
    /\ \A C \in TextCells : \A w2 \in {enqueue(WS(0), C)} :
           w2.exc = "TypeError" /\ Untouched(w2)
    /\ \A w2 \in {enqueue(WithForeign(Foreign(FALSE)), Len(cell) + 1)} :
           w2.exc = "ValueError" /\ Untouched(w2)
    /\ \A w2 \in {enqueue(WithForeign(Foreign(TRUE)), Len(cell) + 1)} :
           w2.exc \in {"TypeError", "ValueError"} /\ Untouched(w2)

\* what enqueue raises for a cell that is no compute cell (TypeError) or
\* not of this worksheet (ValueError)
Rejection(e) == IF published THEN "none" ELSE e

\* C9 (enqueue rejection), amended: on a worksheet that is not published
\* enqueue(C) raises TypeError when C is no compute cell, also when C
\* belongs to another worksheet, and ValueError when C is a compute cell
\* of another worksheet; on a published worksheet it returns without an
\* error; in all these cases the queue, the computing flag and the process
\* are untouched and nothing is submitted.
C9_Rejection ==
    /\ \A C \in TextCells : \A w2 \in {enqueue(WS(0), C)} :
           w2.exc = Rejection("TypeError") /\ Untouched(w2)
    /\ \A w2 \in {enqueue(WithForeign(Foreign(FALSE)), Len(cell) + 1)} :
           w2.exc = Rejection("ValueError") /\ Untouched(w2)
    /\ \A w2 \in {enqueue(WithForeign(Foreign(TRUE)), Len(cell) + 1)} :
           w2.exc = Rejection("TypeError") /\ Untouched(w2)

\* C9 witness: a worksheet with a text cell and a cell computing, on which
\* enqueue raises TypeError for the text cell and ValueError for a compute
\* cell of another worksheet.
C9_Witness ==
    /\ comp_is_running
    /\ queue # <<>>
    /\ \E C \in TextCells : enqueue(WS(0), C).exc = "TypeError"
    /\ enqueue(WithForeign(Foreign(FALSE)), Len(cell) + 1).exc = "ValueError"

\* the cells enqueue finds in the queue
Queued == {C \in 1..Len(cell) : InQueue(WS(0), C)}

\* C10 (enqueue idempotence) as stated: enqueue(C) for a cell C that is in
\* the queue leaves the queue as it is, and no cell is in the queue twice.
C10_IdempotenceAsStated ==
    /\ \A i, j \in 1..Len(queue) :
           i # j => cell[queue[i]].id # cell[queue[j]].id
    /\ \A C \in Queued : \A w2 \in {enqueue(WS(0), C)} :
           Ok(w2) => w2.queue = queue

\* C10 (enqueue idempotence), amended: enqueue(C) for a cell C that is in
\* the queue does not place C again, so no cell is in the queue twice; the
\* queue is as it was when the call returns unless the scheduling step
\* that ends enqueue has restarted the process, which clears the queue.
C10_Idempotence ==
    /\ \A i, j \in 1..Len(queue) :
           i # j => cell[queue[i]].id # cell[queue[j]].id
    /\ \A C \in Queued : \A w2 \in {enqueue(WS(0), C)} :
           Ok(w2) /\ ~w2.restarted => w2.queue = queue

\* C10 witness: two cells are queued, one computing, and enqueue of the
\* one that waits leaves the queue as it is.
C10_Witness ==
    /\ Len(queue) = 2
    /\ comp_is_running
    /\ queue[2] \in Range(cells)
    /\ enqueue(WS(0), queue[2]).queue = queue

\* the ids of the cell list
IdList(w) == [i \in 1..Len(w.cells) |-> w.cell[w.cells[i]].id]

\* the block i of data declares an id that no earlier block was given
KeepsId(data, L, i) ==
    /\ data[i].typ = "compute"
    /\ data[i].meta.has_id
    /\ \A j \in 1..(i - 1) : L[j] # data[i].meta.id

\* L gives the blocks of data their ids as the pass of edit_save should:
\* a declared id that is still free is kept (unless ids are ignored), any
\* other block has an id that is neither declared nor given before
IdsAssigned(data, ignore_ids, L) ==
    /\ Len(L) >= Len(data)
    /\ \A i \in 1..Len(data) :
           IF ~ignore_ids /\ KeepsId(data, L, i)
           THEN L[i] = data[i].meta.id
           ELSE /\ L[i] \notin DeclaredIds(data)
                /\ \A j \in 1..(i - 1) : L[j] # L[i]

\* the two examples of the doctests
IdExamples(w) ==
    /\ \A w2 \in {edit_save(w, TextNoIdAndTen, FALSE, TRUE)} :
           IdList(w2) = <<IntId(0), IntId(10)>> /\ w2.next_id = 11
    /\ \A w2 \in {edit_save(w, TextTrailingText, FALSE, TRUE)} :
           /\ IdList(w2) = <<IntId(0), IntId(1), IntId(2)>>
           /\ w2.next_id = 3

EndsWithPrompt(w) ==
    /\ w.cells # <<>>
    /\ w.cell[w.cells[Len(w.cells)]].kind = "compute"

\* the text has no block or its last block is a text block
EndsInText(data) == data = <<>> \/ data[Len(data)].typ = "plain"

\* w2 ends with one more cell than data has blocks, an empty compute cell
PromptAppended(data, w2) ==
    /\ Len(w2.cells) = Len(data) + 1
    /\ w2.cell[w2.cells[Len(w2.cells)]].input = <<>>
    /\ w2.cell[w2.cells[Len(w2.cells)]].output = <<>>

C13_NoOutputCleanup ==
    \A out \in PollOuts : \A w2 \in {check_comp(WS(0), FALSE, out)} :
        (queue # <<>> /\ cell[queue[1]].no_output /\ w2.ret = "d")
            => /\ w2.cell[queue[1]].dir = {}
               /\ w2.cell[queue[1]].output = <<>>

\* C14 (worksheet independence): a call on the first worksheet (enqueue,
\* check_comp, interrupt, clear_queue, restart_sage, quit) leaves the second
\* worksheet's queue, computing flag and handle and the process behind that
\* handle as they are, and the running cell of the second worksheet leaves
\* its queue as done under polling, whatever the first worksheet does.
C14_Independence ==
    /\ [][Calls1 => /\ other' = other
                    /\ other.sage # 0 =>
                           procs'[other.sage] = procs[other.sage]]_vars
    /\ (other.queue # <<>> /\ other.comp_is_running)
           ~> (other.queue = <<>> /\ ~other.comp_is_running)

\* C14 witness: the cell of the second worksheet is done, its process idle,
\* while the cell of the first worksheet is still being computed.
C14_Witness ==
    /\ other.sage # 0
    /\ ~procs[other.sage].busy
    /\ other.queue = <<>>
    /\ handle # 0
    /\ procs[handle].busy
    /\ queue # <<>>
    /\ comp_is_running

C16_IdleReaping ==
    \A timeout \in -1..MaxTime : \A w2 \in {quit_if_idle(WS(0), timeout)} :
        IF timeout > 0 /\ clock.last # -1 /\ clock.now - clock.last > timeout
        THEN w2 = quit(WS(0))
        ELSE /\ Ok(w2)
             /\ w2.sage = handle
             /\ w2.procs = procs
             /\ w2.queue = queue
             /\ w2.cell = cell
             /\ w2.comp_is_running = comp_is_running

\* C16 witness: the process of the worksheet has been quit a time after the
\* activity recorded last: in this specification only quit_if_idle quits.
C16_Witness ==
    /\ handle = 0
    /\ Len(procs) = 1
    /\ procs[1].quit
    /\ clock.last # -1
    /\ clock.now - clock.last = 2

\* C17 (recoverable status failure): when output_status() fails in
\* check_comp (the queue is not empty, the worksheet has its process and
\* the head C of the queue is not interrupted) and no spawn fails, check_comp
\* raises nothing and returns 'w'; C is then the head of the queue, flagged
\* computing and submitted again, unless its input is a restart keyword:
\* then the process is restarted and C is not submitted.
C17_StatusFailure ==
    \A out \in Outs : \A w2 \in {check_comp(WS(0), TRUE, out)} :
        (queue # <<>> /\ ~published /\ ~cell[queue[1]].interrupted
         /\ w2.exc # "bound")
            => /\ Ok(w2)
               /\ w2.ret = "w"
               /\ IF cleaned_input_text(cell[queue[1]]) \in RestartKeywords
                  THEN /\ w2.restarted
                       /\ \A i \in 1..Len(w2.submitted) :
                              w2.submitted[i].obj # queue[1]
                  ELSE /\ w2.queue # <<>>
                       /\ w2.queue[1] = queue[1]
                       /\ w2.comp_is_running
                       /\ \E i \in 1..Len(w2.submitted) :
                              /\ w2.submitted[i].obj = queue[1]
                              /\ w2.submitted[i].proc = w2.sage

\* C17 witness: a cell is being computed, and a check_comp whose status
\* check fails returns 'w' with this cell submitted again.
C17_Witness ==
    /\ queue # <<>>
    /\ comp_is_running
    /\ handle # 0
    /\ procs[handle].busy
    /\ \E out \in Outs : \E w2 \in {check_comp(WS(0), TRUE, out)} :
           /\ w2.ret = "w"
           /\ Len(w2.submitted) = 1
           /\ w2.submitted[1].obj = queue[1]

\* C18 (spawn failure leaves the scheduler usable): when the spawn of the
\* process fails in an enqueue or a start_next_comp that starts a cell, the
\* call raises, the worksheet has no handle, the computing flag is not left
\* true, and a later start_next_comp whose spawn succeeds gets a handle and
\* submits the cell at the head of the queue.
C18_SpawnFailure ==
    \A w1 \in {start_next_comp(WS(1))}
                \cup {enqueue(WS(1), C) : C \in 1..Len(cell)} :
        (w1.spawn_fail = 0 /\ ~w1.restarted)
            => /\ w1.exc \in {"RuntimeError", "AttributeError"}
               /\ w1.sage = 0
               /\ w1.submitted = <<>>
               /\ ~w1.comp_is_running
               /\ \A w2 \in {start_next_comp([w1 EXCEPT !.exc = "none"])} :
                      w2.exc # "bound"
                          => /\ Ok(w2)
                             /\ w2.sage # 0
                             /\ \E i \in 1..Len(w2.submitted) :
                                    w2.submitted[i].obj = w2.queue[1]

\* C19 (file-move races do not abort the finish step): when check_comp
\* finishes a cell (the process has finished the head of the queue, which
\* is neither interrupted nor a no-output cell), it raises nothing whatever
\* has become of the files the process reports: the cell is taken off the
\* queue, the computing flag cleared, the output text set and 'd' returned.
C19_FileMoveRaces ==
    \A out \in PollOuts : \A w2 \in {check_comp(WS(0), FALSE, out)} :
        (/\ queue # <<>>
         /\ ~cell[queue[1]].interrupted
         /\ ~cell[queue[1]].no_output
         /\ handle # 0
         /\ procs[handle].started
         /\ ~procs[handle].busy)
            => /\ Ok(w2)
               /\ w2.ret = "d"
               /\ w2.queue = Tail(queue)
               /\ ~w2.comp_is_running
               /\ w2.cell[queue[1]].output = out.output

PublishedCalls ==
    {sage(WS(0)), ping(WS(0))}
        \cup {enqueue(WS(0), C) : C \in 1..Len(cell)}
        \cup {check_comp(WS(0), fails, out) : fails \in BOOLEAN, out \in Outs}

\* C21 (published worksheets never compute): a published worksheet has an
\* empty queue, a false computing flag and no handle, and enqueue, ping,
\* sage() and check_comp leave it so: enqueue changes nothing, sage() returns
\* None, check_comp returns 'e', and no call spawns a process or submits a
\* cell.
C21_PublishedNeverComputes ==
    published =>
        /\ queue = <<>> /\ ~comp_is_running /\ handle = 0
        /\ \A w2 \in PublishedCalls :
               /\ Ok(w2)
               /\ w2.queue = <<>> /\ ~w2.comp_is_running /\ w2.sage = 0
               /\ w2.procs = procs /\ w2.submitted = <<>>
        /\ \A C \in 1..Len(cell) : enqueue(WS(0), C) = WS(0)
        /\ \A out \in Outs : check_comp(WS(0), FALSE, out).ret = "e"

\* C21 witness: a published worksheet on which eval_asap_no_output has made
\* its hidden cell and called enqueue for it: nothing is queued.
C21_Witness ==
    /\ published
    /\ next_hidden_id < -1
    /\ Len(cells) = 2
    /\ queue = <<>>
    /\ handle = 0

\* C22 (computing flag exactness), the part that is a property of the
\* state: whenever the computing flag is true the queue is not empty and the
\* worksheet has a handle, which is a started process.
C22_FlagExact ==
    comp_is_running =>
        /\ queue # <<>>
        /\ handle # 0
        /\ procs[handle].started

\* C23 (the queue is a sublist of the cells): every cell object of the queue
\* is in the cell list of the worksheet or is a hidden cell that
\* eval_asap_no_output has made.
C23_QueueSublist ==
    \A i \in 1..Len(queue) :
        \/ \E j \in 1..Len(cells) : cells[j] = queue[i]
        \/ /\ cell[queue[i]].asap
           /\ cell[queue[i]].no_output
           /\ cell[queue[i]].id.n < 0

\* what restart_sage() has left when it returns: the handle of before was
\* asked to quit, the cells queued before are not queued and are flagged
\* interrupted, and the handle is a started process spawned by the call
Restarted(w2) ==
    /\ handle # 0 => w2.procs[handle].quit
    /\ \A i \in 1..Len(queue) :
           /\ \A j \in 1..Len(w2.queue) : w2.queue[j] # queue[i]
           /\ w2.cell[queue[i]].interrupted
    /\ w2.sage > Len(procs)
    /\ w2.sage # handle
    /\ w2.procs[w2.sage].started
    /\ ~w2.procs[w2.sage].quit

\* C24 (restart postcondition): when restart_sage() returns on a worksheet
\* that is not published, whether or not it had a handle, the handle of
\* before (if any) has been asked to quit, no cell queued before is still
\* queued and each of them is flagged interrupted, and the worksheet has a
\* started handle spawned by the call, distinct from the one of before.
C24_RestartPost ==
    ~published =>
        \A s \in SpawnFails : \A w2 \in {restart_sage(WS(s))} :
            Ok(w2) => Restarted(w2)

\* C25 (quit is best-effort but complete): quit() raises nothing and takes
\* the worksheet out of the notebook's table.  With a handle, whether
\* S.quit() succeeds or raises, the handle has been asked to quit, the
\* worksheet has no handle, an empty queue and a false computing flag, every
\* cell queued before is flagged interrupted, and the cell list is the one
\* the body saved by the call gives.  Without a handle nothing else changes.
C25_QuitComplete ==
    \A raises \in BOOLEAN :
        \A w \in {[WS(0) EXCEPT !.quit_raises = raises]} :
            \A w2 \in {quit(w)} :
                /\ Ok(w2)
                /\ ~w2.registered
                /\ IF handle = 0
                   THEN w2 = [w EXCEPT !.registered = FALSE]
                   ELSE /\ w2.procs[handle].quit
                        /\ \A p \in 1..Len(procs) :
                               p # handle => w2.procs[p] = procs[p]
                        /\ w2.sage = 0
                        /\ w2.queue = <<>>
                        /\ ~w2.comp_is_running
                        /\ \A i \in 1..Len(queue) :
                               w2.cell[queue[i]].interrupted
                        /\ CellSeq(w2)
                               = CellSeq(edit_save(w, body(w), FALSE, FALSE))

\* C25 witness: the state a quit() has left whose S.quit() raised while a
\* cell was computing: the process was asked to quit and is started and
\* busy still, the worksheet has no handle, nothing queued and is not in the
\* notebook's table.
C25_Witness ==
    /\ handle = 0
    /\ queue = <<>>
    /\ ~comp_is_running
    /\ 1 \notin worksheets
    /\ \E p \in 1..Len(procs) :
           procs[p].quit /\ procs[p].started /\ procs[p].busy

\* C26 (clear_queue postcondition): clear_queue() flags every cell of the
\* queue interrupted, leaves the queue empty and the computing flag false,
\* calls nothing on the process (the handle and the processes are as
\* before, nothing is signalled or submitted) and leaves every other cell,
\* its interrupted flag included, and the cell list as they are.
C26_ClearQueue ==
    \A w2 \in {clear_queue(WS(0))} :
        /\ Ok(w2)
        /\ w2.queue = <<>>
        /\ ~w2.comp_is_running
        /\ w2.sage = handle
        /\ w2.procs = procs
        /\ w2.signals = 0
        /\ w2.submitted = <<>>
        /\ w2.cells = cells
        /\ \A o \in 1..Len(cell) :
               IF \E i \in 1..Len(queue) : queue[i] = o
               THEN w2.cell[o] = [cell[o] EXCEPT !.interrupted = TRUE]
               ELSE w2.cell[o] = cell[o]

\* C26 witness: a cell is being computed and another waits, a third cell of
\* the list is not queued and not flagged; clear_queue() flags the two and
\* not the third, and the process is busy still.
C26_Witness ==
    /\ Len(queue) = 2
    /\ comp_is_running
    /\ handle # 0
    /\ procs[handle].busy
    /\ \E o \in 1..Len(cell) :
           /\ \A i \in 1..Len(queue) : queue[i] # o
           /\ ~cell[o].interrupted
           /\ \A w2 \in {clear_queue(WS(0))} :
                  /\ ~w2.cell[o].interrupted
                  /\ w2.cell[queue[1]].interrupted
                  /\ w2.cell[queue[2]].interrupted
                  /\ w2.procs[handle].busy

\* check_comp() asks the process of the worksheet for the status of the
\* head of the queue
Polls ==
    /\ queue # <<>>
    /\ ~cell[queue[1]].interrupted
    /\ handle # 0
    /\ procs[handle].started

C28_RegistryLive ==
    \A p \in 1..Len(procs) : p = handle \/ p = other.sage

\* C29 (reaper reachability): a worksheet that has a started process is in
\* the notebook's table of worksheets, which quit_idle_worksheet_processes
\* goes through.
C29_ReaperReach ==
    /\ (handle # 0 /\ procs[handle].started) => 1 \in worksheets
    /\ (other.sage # 0 /\ procs[other.sage].started) => 2 \in worksheets

\* C30 (per-worksheet mutual exclusion): the timer thread and the request
\* thread are never both inside quit() of the worksheet, so the handle is
\* asked to quit once and dropped once: no del self.__sage finds the
\* attribute gone.
C30_MutualExclusion ==
    /\ ~(threads["reaper"].pc # "idle" /\ threads["request"].pc # "idle")
    /\ \A t \in Threads : threads[t].exc = "none"

\* the threads that are sweeping
Sweeping(kind) == {th \in Threads : updater.pc[th] = kind}

\* the sample times of two sweeps of a list are more than interval apart
Apart(L, interval) ==
    \A i, j \in 1..Len(L) : i < j => L[j] - L[i] > interval

\* C31: under any interleaving of the threads that call update(), at most
\* one thread is in the idle sweep and at most one in the save sweep at a
\* time, the sample times of two sweeps of the same kind are more than the
\* interval apart, and last_idle_time and last_save_time never decrease.
C31_Updater ==
    /\ [](/\ Cardinality(Sweeping("idle_body")) <= 1
          /\ Cardinality(Sweeping("save_body")) <= 1
          /\ Apart(updater.idles, idle_interval)
          /\ Apart(updater.saves, save_interval))
    /\ [][/\ updater'.last_idle_time >= updater.last_idle_time
          /\ updater'.last_save_time >= updater.last_save_time]_vars

\* Two save sweeps and an idle sweep have been made, and a thread is in
\* the next idle sweep while the other, which passed the test without the
\* lock, waits with a sample time that the test under the lock will reject.
C31_Witness ==
    /\ Len(updater.idles) >= 1
    /\ Len(updater.saves) >= 2
    /\ \E a, b \in Threads :
           /\ updater.pc[a] = "idle_body"
           /\ updater.pc[b] = "idle_wait"
           /\ updater.t[b] <= updater.t[a] + idle_interval

\* C32: the block ids of the successive submissions of the worksheet are
\* strictly increasing, so no two submissions carry the same block id,
\* across restarts of the process too.
C32_BlockIdsIncrease ==
    \A i, j \in 1..Len(blocks.ids) :
        i < j => blocks.ids[i] < blocks.ids[j]

\* C33: across the insertions, deletions and reparses of the worksheet the
\* value that next_id() returns never decreases and the counter of the
\* hidden ids never increases, so that no id is handed out twice.
C33_CountersMonotone ==
    [][/\ next_id' >= next_id
       /\ next_hidden_id' <= next_hidden_id]_vars

\* the cell objects made by eval_asap_no_output
HiddenCells == {o \in 1..Len(cell) : cell[o].asap /\ cell[o].no_output}

\* C34: every cell of the cell list has a string id or a non-negative
\* integer id, every hidden cell has a negative integer id, and so no
\* queued hidden cell has the id of a cell of the list, whatever ids the
\* reparsed text declares.
C34_IdRanges ==
    /\ \A i \in 1..Len(cells) :
           cell[cells[i]].id.isint => cell[cells[i]].id.n >= 0
    /\ \A o \in HiddenCells : cell[o].id.isint /\ cell[o].id.n < 0
    /\ \A i \in 1..Len(queue), j \in 1..Len(cells) :
           queue[i] \in HiddenCells => cell[queue[i]].id # cell[cells[j]].id

\* the queue without the cell object C
Without(q, C) == Restrict(q, Range(q) \ {C})

\* the cell objects that are queued and not being executed: the flag is
\* down or the cell is not the head of the queue
QueuedNotRunning ==
    {C \in Range(cells) :
        /\ C \in Range(queue)
        /\ ~comp_is_running \/ queue[1] # C}

\* C35: delete_cell_with_id of a cell that is queued and not being executed
\* takes the cell out of the queue and leaves the other queued cells in
\* their order, and a start_next_comp after it does not submit the cell.
C35_DeletedNotRun ==
    \A C \in QueuedNotRunning :
        \A w2 \in {delete_cell_with_id(WS(0), cell[C].id)} :
            /\ w2.queue = Without(queue, C)
            /\ \A w3 \in {start_next_comp(w2)} :
                   \A k \in 1..Len(w3.submitted) : w3.submitted[k].obj # C

\* C36: check_comp returns a status 'e', 'w' or 'd' whenever it returns;
\* it never returns without one and leaves a finished cell at the head of
\* the queue with the computing flag up, also for a cell that asks for
\* introspection with nothing before the cursor.
C36_PollStatus ==
    \A out \in PollOuts :
        \A w2 \in {check_comp(WS(0), FALSE, out)} :
            Ok(w2) => w2.ret \in {"e", "w", "d"}

\* C37: while the driver keeps calling check_comp and start_next_comp, the
\* spawn succeeds in the end and the process finishes what is submitted,
\* a queue that holds cells is drained: it becomes empty with the
\* computing flag down.
C37_QueueProgress ==
    (queue # <<>>) ~> (queue = <<>> /\ ~comp_is_running)

\* the directory that holds the files of a report and nothing else
FilesOf(out) ==
    {[name |-> out.filenames[i], what |-> out.kind[out.filenames[i]]] :
        i \in 1..Len(out.filenames)}

\* C38: when check_comp reports 'd' for a cell that is neither a no-output
\* cell nor an introspection request, the cell's directory holds exactly the
\* files of the final report: no link of an earlier poll and no older file
\* stays, also when the report names no file.
C38_FinishedFiles ==
    \A out \in PollOuts :
        \A w2 \in {check_comp(WS(0), FALSE, out)} :
            (/\ queue # <<>>
             /\ ~cell[queue[1]].no_output
             /\ cell[queue[1]].introspect = "no"
             /\ w2.ret = "d")
                => w2.cell[queue[1]].dir = FilesOf(out)

\* The rounds the extraction loop of edit_save makes on a text, the round
\* that stops on EOFError included, when every other round takes at least
\* the three characters of the opening delimiter off the text and the loop
\* is over within fuel rounds; -1 otherwise.
RECURSIVE Rounds(_, _)
Rounds(text, fuel) ==
    IF fuel = 0 THEN -1
    ELSE LET r == extract_first_compute_cell(text)
         IN  IF r.eof THEN 1
             ELSE IF Len(text) - Len(From(text, r.end)) < Len(OPEN) THEN -1
             ELSE LET n == Rounds(From(text, r.end), fuel - 1)
                  IN  IF n = -1 THEN -1 ELSE n + 1

\* the texts of the codec specification, the texts with a block that is
\* not closed and the text of the worksheet as it is
LoopTexts == CodecTexts \cup Unterminated \cup {body(WS(0))}

====
